---- MODULE Spec2Model ----
(***************************************************************************)
(* A model of the schemeit interpreter: the lexical environment of         *)
(* src/env.rs (frames shared through Rc<RefCell<Frame>>, Env handles) and  *)
(* the evaluator of src/eval.rs, run by the REPL entry point eval_str of   *)
(* src/main.rs.                                                            *)
(*                                                                         *)
(* Frames live in an arena `frames`; the index of a frame stands for the   *)
(* address held by an Rc.  An Env handle is the index of its               *)
(* current_frame.  A frame whose last Rc was dropped is replaced by a      *)
(* tombstone and its index is never used again.                            *)
(***************************************************************************)
EXTENDS Integers, Sequences, FiniteSets, TLC

\* ------------------------------------------------------------------ bounds
\* frames ever allocated (Spec, ScopeSpec)
MaxFrames == 3
\* the Env values of the program: env, and the lambda_env made from one of them
EnvVars == {"env", "lambda_env"}
\* symbols and values the Env operations are driven with (Spec)
Names == {"a", "b"}

\* ------------------------------------------------- SymbolicExpression
SE_Nil == [tag |-> "Nil"]
SE_Int(i) == [tag |-> "Int", i |-> i]
\* Float(f64): an f64 is kept as the ratio f/d in lowest terms with d >= 0;
\* d = 0 stands for the values that are no number: f = 1 for inf, f = -1 for
\* -inf, f = 0 for NaN. SE_Float(f) is the f64 whose value is the integer f.
SE_Float(f) == [tag |-> "Float", f |-> f, d |-> 1]
SE_Bool(b) == [tag |-> "Bool", b |-> b]
SE_Str(s) == [tag |-> "Str", s |-> s]
SE_Symbol(name) == [tag |-> "Symbol", name |-> name]
SE_Operation(operation) == [tag |-> "Operation", op |-> operation]
SE_Expression(values) == [tag |-> "Expression", values |-> values]
SE_Cons(head, tail) == [tag |-> "Cons", head |-> head, tail |-> tail]
SE_Lambda(parameters, env, body) ==
    [tag |-> "Lambda", parameters |-> parameters, env |-> env, body |-> body]

Values == {SE_Nil, SE_Int(2)}

\* ------------------------------------------------- results and errors
VariableNotFound(name) == [kind |-> "VariableNotFound", name |-> name]
Ok(value) == [tag |-> "Ok", value |-> value]
Err(error) == [tag |-> "Err", error |-> error]
\* the () of Result<()> and of the functions that return nothing
Unit == [tag |-> "Unit"]
\* what a call that panicked hands back: nothing
NoReturn == [tag |-> "NoReturn"]
\* Option<SymbolicExpression>
Some(value) == [some |-> TRUE, value |-> value]
NoneValue == [some |-> FALSE]

\* ------------------------------------------------------------- Frame
\* Option<FrameLink>::None
None == 0
EmptyBindings == [n \in {} |-> SE_Nil]
Insert(bindings, symbol, value) ==
    [n \in (DOMAIN bindings) \cup {symbol} |->
        IF n = symbol THEN value ELSE bindings[n]]

Frame_new == [bindings |-> EmptyBindings, outer |-> None, live |-> TRUE]
Frame_with_outer(outer) == [bindings |-> EmptyBindings, outer |-> outer, live |-> TRUE]
\* what is left of a frame once its last Rc is dropped
Dropped == [bindings |-> EmptyBindings, outer |-> None, live |-> FALSE]

Frame_define_symbol_root(fs, f, symbol, value) ==
    [fs EXCEPT ![1].bindings = Insert(@, symbol, value)]
Frame_define_symbol(fs, f, symbol, value) ==
    [fs EXCEPT ![f].bindings = Insert(@, symbol, value)]

RECURSIVE Frame_find_symbol_outermost(_, _, _)
Frame_find_symbol_outermost(fs, f, symbol) ==
    LET outerHit == IF fs[f].outer # None
                    THEN Frame_find_symbol_outermost(fs, fs[f].outer, symbol)
                    ELSE NoneValue
    IN  IF outerHit.some THEN outerHit
        ELSE IF symbol \in DOMAIN fs[f].bindings
             THEN Some(fs[f].bindings[symbol])
             ELSE NoneValue
RECURSIVE Frame_find_symbol(_, _, _)
Frame_find_symbol(fs, f, symbol) ==
    IF symbol \in DOMAIN fs[f].bindings
    THEN Some(fs[f].bindings[symbol])
    ELSE IF fs[f].outer # None
         THEN Frame_find_symbol(fs, fs[f].outer, symbol)
         ELSE NoneValue

Frame_set_symbol_as_define(fs, f, symbol, new_value) ==
    [frames |-> [fs EXCEPT ![f].bindings = Insert(@, symbol, new_value)],
     result |-> Ok(Unit)]
RECURSIVE Frame_set_symbol_insert_at_root(_, _, _, _)
Frame_set_symbol_insert_at_root(fs, f, symbol, new_value) ==
    IF symbol \in DOMAIN fs[f].bindings
    THEN [frames |-> [fs EXCEPT ![f].bindings[symbol] = new_value],
          result |-> Ok(Unit)]
    ELSE IF fs[f].outer # None
         THEN Frame_set_symbol_insert_at_root(fs, fs[f].outer, symbol, new_value)
         ELSE [frames |-> [fs EXCEPT ![f].bindings = Insert(@, symbol, new_value)],
               result |-> Err(VariableNotFound(symbol))]
RECURSIVE Frame_set_symbol(_, _, _, _)
Frame_set_symbol(fs, f, symbol, new_value) ==
    IF symbol \in DOMAIN fs[f].bindings
    THEN [frames |-> [fs EXCEPT ![f].bindings[symbol] = new_value],
          result |-> Ok(Unit)]
    ELSE IF fs[f].outer # None
         THEN Frame_set_symbol(fs, fs[f].outer, symbol, new_value)
         ELSE [frames |-> fs, result |-> Err(VariableNotFound(symbol))]

\* --------------------------------------------------------------- Env
\* Env::new: one frame without outer, the handle points at it
Env_new == [frames |-> <<Frame_new>>, cur |-> 1]

\* the new frame as a clone of the current one
Env_add_frame_clone(fs, cur) ==
    [frames |-> Append(fs, [fs[cur] EXCEPT !.outer = cur]), cur |-> Len(fs) + 1]
Env_add_frame(fs, cur) ==
    [frames |-> Append(fs, Frame_with_outer(cur)), cur |-> Len(fs) + 1]

\* expect() on the outer link: a panic when there is none
Env_pop_frame_stay_at_root(fs, cur) ==
    IF fs[cur].outer = None
    THEN [cur |-> cur, panicked |-> FALSE]
    ELSE [cur |-> fs[cur].outer, panicked |-> FALSE]
Env_pop_frame_to_root(fs, cur) ==
    IF fs[cur].outer = None
    THEN [cur |-> cur, panicked |-> TRUE]
    ELSE [cur |-> 1, panicked |-> FALSE]
Env_pop_frame(fs, cur) ==
    IF fs[cur].outer = None
    THEN [cur |-> cur, panicked |-> TRUE]
    ELSE [cur |-> fs[cur].outer, panicked |-> FALSE]

\* the copy a deep clone of the captured frame would be
Env_get_lambda_env_copy(fs, cur) ==
    [frames |-> Append(Append(fs, fs[cur]), Frame_with_outer(Len(fs) + 1)),
     env |-> Len(fs) + 2]
Env_get_lambda_env(fs, cur) ==
    [frames |-> Append(fs, Frame_with_outer(cur)), env |-> Len(fs) + 1]

Env_find_symbol(fs, cur, symbol) ==
    LET found == Frame_find_symbol(fs, cur, symbol)
    IN  IF found.some THEN Ok(found.value) ELSE Err(VariableNotFound(symbol))

\* a define that lands in the enclosing frame when there is one
Env_define_symbol_in_outer(fs, cur, symbol, value) ==
    Frame_define_symbol(fs, IF fs[cur].outer = None THEN cur ELSE fs[cur].outer,
                        symbol, value)
Env_define_symbol(fs, cur, symbol, value) ==
    Frame_define_symbol(fs, cur, symbol, value)

Env_set_symbol(fs, cur, symbol, new_value) ==
    Frame_set_symbol(fs, cur, symbol, new_value)

\* ------------------------------------------------ Rc: dropping frames
\* the frames a value holds an Rc to: the Env of every Lambda in it
RECURSIVE EnvsOf(_)
EnvsOf(value) ==
    IF value.tag = "Lambda" THEN {value.env}
    ELSE IF value.tag = "Cons" THEN EnvsOf(value.head) \cup EnvsOf(value.tail)
    ELSE {}

\* the frames a frame holds an Rc to: its outer and those of its bindings
HeldBy(fs, f) ==
    (IF fs[f].outer = None THEN {} ELSE {fs[f].outer})
    \cup UNION {EnvsOf(fs[f].bindings[n]) : n \in DOMAIN fs[f].bindings}

RECURSIVE Reachable(_, _)
Reachable(fs, roots) ==
    LET next == roots \cup UNION {HeldBy(fs, f) : f \in roots}
    IN  IF next = roots THEN roots ELSE Reachable(fs, next)

\* a frame that no handle and no live frame holds any more is dropped
Release_popped(fs, roots, popped) ==
    [f \in 1..Len(fs) |-> IF f \in popped THEN Dropped ELSE fs[f]]
Release(fs, roots, popped) ==
    LET keep == Reachable(fs, roots)
    IN  [f \in 1..Len(fs) |-> IF f \in keep THEN fs[f] ELSE Dropped]

\* ----------------------------------------------------- the variables
VARIABLES
    frames,     \* the arena of frames: Seq of [bindings, outer, live]
    handles,    \* the Env values of the program: handles[h] is current_frame
    status,     \* "running", or "aborted" once a panic unwound the program
    panic,      \* which call panicked, once status is "aborted"
    captured,   \* for each handle, where get_lambda_env made it
    mark,       \* the scope opened by the last add_frame and what was done in it
    session,    \* what the REPL evaluated so far
    overflow_checks  \* the build: TRUE when integer overflow panics (the dev
                     \* profile), FALSE when it wraps (the release profile)

vars == <<frames, handles, status, panic, captured, mark, session,
         overflow_checks>>

\* --------------------------------------------------------- evaluator
\* What an evaluation hands back: the arena, the frame the Env handle passed
\* as `env` is left at, and the value; or a panic, which unwinds the program.
Returned(fs, cur, value) ==
    [frames |-> fs, cur |-> cur, value |-> value, panicked |-> FALSE]
Panicked(fs, cur) ==
    [frames |-> fs, cur |-> cur, value |-> SE_Nil, panicked |-> TRUE]

IsNumber(value) == value.tag \in {"Int", "Float"}

\* ---- f64 arithmetic on ratios [n, d]; exact, where f64 rounds
Abs(i) == IF i < 0 THEN 0 - i ELSE i
Sgn(i) == IF i < 0 THEN 0 - 1 ELSE IF i > 0 THEN 1 ELSE 0

RECURSIVE GCD(_, _)
GCD(a, b) == IF b = 0 THEN a ELSE GCD(b, a % b)

\* the f64 n/d: d = 0 gives inf, -inf or NaN by the sign of n
F64(n, d) ==
    IF d = 0 THEN [n |-> Sgn(n), d |-> 0]
    ELSE LET g == GCD(Abs(n), Abs(d))
         IN  [n |-> (Sgn(d) * n) \div g, d |-> Abs(d) \div g]

F64_NaN == [n |-> 0, d |-> 0]
F64_is_nan(x) == x.n = 0 /\ x.d = 0

F64_add(x, y) ==
    IF x.d = 0 /\ y.d = 0 THEN (IF x = y THEN x ELSE F64_NaN)
    ELSE F64(x.n * y.d + y.n * x.d, x.d * y.d)
F64_neg(x) == [n |-> 0 - x.n, d |-> x.d]
F64_sub(x, y) == F64_add(x, F64_neg(y))
F64_mul(x, y) == F64(x.n * y.n, x.d * y.d)
\* x / 0.0 is inf, -inf or NaN; the sign of a zero is not kept
F64_div(x, y) ==
    F64(x.n * y.d * (IF y.n < 0 THEN 0 - 1 ELSE 1), x.d * Abs(y.n))

\* comparisons of f64: every one is false when a side is NaN
F64_eq(x, y) == ~F64_is_nan(x) /\ ~F64_is_nan(y) /\ x = y
F64_lt(x, y) ==
    /\ ~F64_is_nan(x) /\ ~F64_is_nan(y)
    /\ IF x.d = 0 /\ y.d = 0 THEN x.n < y.n ELSE x.n * y.d < y.n * x.d
F64_le(x, y) == F64_lt(x, y) \/ F64_eq(x, y)

\* `as f64` on an Int, and the f64 of a Float
AsF64(value) ==
    IF value.tag = "Int" THEN [n |-> value.i, d |-> 1]
    ELSE [n |-> value.f, d |-> value.d]
\* SymbolicExpression::Float(x)
Float_of(x) == [tag |-> "Float", f |-> x.n, d |-> x.d]

\* / as the other three: Int / Int an Int, by integer division
Arith_int_division(operation, acc, elem) ==
    IF ~(IsNumber(acc) /\ IsNumber(elem)) THEN [tag |-> "Panic"]
    ELSE IF acc.tag = "Int" /\ elem.tag = "Int"
    THEN CASE operation = "Add" -> SE_Int(acc.i + elem.i)
           [] operation = "Substract" -> SE_Int(acc.i - elem.i)
           [] operation = "Multiply" -> SE_Int(acc.i * elem.i)
           [] operation = "Divide" ->
                  IF elem.i = 0 THEN [tag |-> "Panic"]
                  ELSE SE_Int(Sgn(acc.i) * Sgn(elem.i)
                                  * (Abs(acc.i) \div Abs(elem.i)))
    ELSE LET x == AsF64(acc)
             y == AsF64(elem)
         IN  Float_of(CASE operation = "Add" -> F64_add(x, y)
                        [] operation = "Substract" -> F64_sub(x, y)
                        [] operation = "Multiply" -> F64_mul(x, y)
                        [] operation = "Divide" -> F64_div(x, y))
\* the closures passed to reduce by + - * /: Int op Int is Int except for /,
\* a Float on either side makes a Float, anything else panics ("alarm reduce")
Arith(operation, acc, elem) ==
    IF ~(IsNumber(acc) /\ IsNumber(elem)) THEN [tag |-> "Panic"]
    ELSE IF acc.tag = "Int" /\ elem.tag = "Int" /\ operation # "Divide"
    THEN SE_Int(CASE operation = "Add" -> acc.i + elem.i
                  [] operation = "Substract" -> acc.i - elem.i
                  [] operation = "Multiply" -> acc.i * elem.i)
    ELSE LET x == AsF64(acc)
             y == AsF64(elem)
         IN  Float_of(CASE operation = "Add" -> F64_add(x, y)
                        [] operation = "Substract" -> F64_sub(x, y)
                        [] operation = "Multiply" -> F64_mul(x, y)
                        [] operation = "Divide" -> F64_div(x, y))

RECURSIVE eval(_, _, _)
RECURSIVE eval_expression(_, _, _)
RECURSIVE eval_operation(_, _, _, _, _)
RECURSIVE eval_lambda(_, _, _, _, _)
RECURSIVE eval_lambda_shared_frame(_, _, _, _, _)
RECURSIVE Reduce(_, _, _, _, _, _)
RECURSIVE EvalEach(_, _, _, _, _)
RECURSIVE BindParameters(_, _, _, _, _, _, _)
RECURSIVE BindParameters_in_callee(_, _, _, _, _, _, _)
RECURSIVE CompareAll(_, _, _, _, _, _)
RECURSIVE FindClause(_, _, _, _)
RECURSIVE BindLet(_, _, _, _)
RECURSIVE IntPow(_, _)
RECURSIVE FoldList(_, _, _, _, _, _)

\* expression_iter.map(eval_w_env).reduce(f), from the second element on:
\* each argument is evaluated and folded into acc before the next one
Reduce(fs, cur, operation, values, i, acc) ==
    IF i > Len(values) THEN Returned(fs, cur, acc)
    ELSE LET r == eval(fs, cur, values[i])
         IN  IF r.panicked THEN r
             ELSE LET z == Arith(operation, acc, r.value)
                  IN  IF z.tag = "Panic" THEN Panicked(r.frames, r.cur)
                      ELSE Reduce(r.frames, r.cur, operation, values, i + 1, z)

\* Operation::Add, Substract, Multiply, Divide: reduce(..).unwrap() panics on
\* no argument
Operation_Arith(fs, cur, operation, values, i) ==
    IF i > Len(values) THEN Panicked(fs, cur)
    ELSE LET r == eval(fs, cur, values[i])
         IN  IF r.panicked THEN r
             ELSE Reduce(r.frames, r.cur, operation, values, i + 1, r.value)

\* expression_iter.map(eval).last(): every form in order, the last value kept
EvalEach(fs, cur, values, i, last) ==
    IF i > Len(values) THEN Returned(fs, cur, last)
    ELSE LET r == eval(fs, cur, values[i])
         IN  IF r.panicked THEN r
             ELSE EvalEach(r.frames, r.cur, values, i + 1, r.value)

\* Operation::Begin: last().unwrap() panics on an empty body
Operation_Begin(fs, cur, values, i) ==
    LET pushed == Env_add_frame(fs, cur)
    IN  IF i > Len(values) THEN Panicked(pushed.frames, pushed.cur)
        ELSE LET r == EvalEach(pushed.frames, pushed.cur, values, i, SE_Nil)
             IN  IF r.panicked THEN r
                 ELSE LET popped == Env_pop_frame(r.frames, r.cur)
                      IN  IF popped.panicked THEN Panicked(r.frames, r.cur)
                          ELSE Returned(r.frames, popped.cur, r.value)

\* a module that runs its forms in a frame of its own, as begin does
Operation_Module_in_new_frame(fs, cur, values, i) ==
    LET pushed == Env_add_frame(fs, cur)
        r == EvalEach(pushed.frames, pushed.cur, values, i, SE_Nil)
    IN  IF r.panicked THEN r
        ELSE Returned(r.frames, Env_pop_frame(r.frames, r.cur).cur, SE_Nil)
\* Operation::Module: for_each over the forms, on env; the values are dropped
Operation_Module(fs, cur, values, i) ==
    LET r == EvalEach(fs, cur, values, i, SE_Nil)
    IN  IF r.panicked THEN r ELSE Returned(r.frames, r.cur, SE_Nil)

\* Operation::Define
Operation_Define(fs, cur, values, i) ==
    IF i > Len(values) \/ values[i].tag # "Symbol" THEN Panicked(fs, cur)
    ELSE IF i + 1 > Len(values) THEN Panicked(fs, cur)
    ELSE LET r == eval(fs, cur, values[i + 1])
         IN  IF r.panicked THEN r
             ELSE Returned(Env_define_symbol(r.frames, r.cur, values[i].name, r.value),
                           r.cur, SE_Nil)

\* set! as a second define
Operation_Set_as_define(fs, cur, values, i) ==
    Operation_Define(fs, cur, values, i)
\* Operation::Set: the Result of env.set_symbol is dropped
Operation_Set(fs, cur, values, i) ==
    IF i > Len(values) \/ values[i].tag # "Symbol" THEN Panicked(fs, cur)
    ELSE IF i + 1 > Len(values) THEN Panicked(fs, cur)
    ELSE LET r == eval(fs, cur, values[i + 1])
         IN  IF r.panicked THEN r
             ELSE Returned(Env_set_symbol(r.frames, r.cur, values[i].name, r.value).frames,
                           r.cur, SE_Nil)

\* Operation::Lambda
Operation_Lambda(fs, cur, values, i) ==
    IF i > Len(values) \/ values[i].tag # "Expression" THEN Panicked(fs, cur)
    ELSE IF \E k \in DOMAIN values[i].values : values[i].values[k].tag # "Symbol"
    THEN Panicked(fs, cur)
    ELSE IF i + 1 > Len(values) THEN Panicked(fs, cur)
    ELSE LET parameters == [k \in DOMAIN values[i].values |-> values[i].values[k].name]
             captured_env == Env_get_lambda_env(fs, cur)
         IN  Returned(captured_env.frames, cur,
                      SE_Lambda(parameters, captured_env.env, values[i + 1]))

\* the match of a comparison on (&first, &each): numbers by value with an
\* Int widened to f64 beside a Float, Bool with false below true, Nil equal
\* to Nil, every other pair false (the order of two Str is left out)
Compared(operation, first, each) ==
    IF first.tag = "Int" /\ each.tag = "Int"
    THEN CASE operation = "Eq" -> first.i = each.i
           [] operation = "Smaller" -> first.i < each.i
           [] operation = "Greater" -> first.i > each.i
           [] operation = "SmallerOrEqual" -> first.i <= each.i
           [] operation = "GreaterOrEqual" -> first.i >= each.i
    ELSE IF IsNumber(first) /\ IsNumber(each)
    THEN LET x == AsF64(first)
             y == AsF64(each)
         IN  CASE operation = "Eq" -> F64_eq(x, y)
               [] operation = "Smaller" -> F64_lt(x, y)
               [] operation = "Greater" -> F64_lt(y, x)
               [] operation = "SmallerOrEqual" -> F64_le(x, y)
               [] operation = "GreaterOrEqual" -> F64_le(y, x)
    ELSE IF first.tag = "Bool" /\ each.tag = "Bool"
    THEN CASE operation = "Eq" -> first.b = each.b
           [] operation = "Smaller" -> ~first.b /\ each.b
           [] operation = "Greater" -> first.b /\ ~each.b
           [] operation = "SmallerOrEqual" -> ~first.b \/ each.b
           [] operation = "GreaterOrEqual" -> first.b \/ ~each.b
    ELSE IF first.tag = "Str" /\ each.tag = "Str" /\ operation = "Eq"
    THEN first.s = each.s
    ELSE IF first.tag = "Nil" /\ each.tag = "Nil" /\ operation = "Eq"
    THEN TRUE
    ELSE FALSE

\* evaluated_arguments.all(..): the arguments after the first are evaluated
\* one by one, each compared with first; the first false one ends it
CompareAll(fs, cur, operation, first, values, i) ==
    IF i > Len(values) THEN Returned(fs, cur, SE_Bool(TRUE))
    ELSE LET r == eval(fs, cur, values[i])
         IN  IF r.panicked THEN r
             ELSE IF ~Compared(operation, first, r.value)
                  THEN Returned(r.frames, r.cur, SE_Bool(FALSE))
             ELSE CompareAll(r.frames, r.cur, operation, first, values, i + 1)

\* Operation::Eq, Smaller, Greater, GreaterOrEqual, SmallerOrEqual
Operation_Compare(fs, cur, operation, values, i) ==
    IF i > Len(values) THEN Panicked(fs, cur)
    ELSE LET r == eval(fs, cur, values[i])
         IN  IF r.panicked THEN r
             ELSE CompareAll(r.frames, r.cur, operation, r.value, values, i + 1)

\* Operation::If
Operation_If(fs, cur, values, i) ==
    IF i > Len(values) THEN Panicked(fs, cur)
    ELSE LET predicate == eval(fs, cur, values[i])
         IN  IF predicate.panicked THEN predicate
             ELSE IF predicate.value.tag # "Bool"
                  THEN Panicked(predicate.frames, predicate.cur)
             ELSE LET chosen == IF predicate.value.b THEN i + 1 ELSE i + 2
                  IN  IF chosen > Len(values)
                      THEN Panicked(predicate.frames, predicate.cur)
                      ELSE eval(predicate.frames, predicate.cur, values[chosen])

\* expression_iter.find_map(..) of Operation::Cond
FindClause(fs, cur, values, i) ==
    IF i > Len(values) THEN Panicked(fs, cur)
    ELSE IF values[i].tag # "Expression" \/ Len(values[i].values) = 0
    THEN Panicked(fs, cur)
    ELSE LET predicate == eval(fs, cur, values[i].values[1])
         IN  IF predicate.panicked THEN predicate
             ELSE IF predicate.value.tag # "Bool"
                  THEN Panicked(predicate.frames, predicate.cur)
             ELSE IF ~predicate.value.b
                  THEN FindClause(predicate.frames, predicate.cur, values, i + 1)
             ELSE IF Len(values[i].values) < 2
                  THEN Panicked(predicate.frames, predicate.cur)
             ELSE eval(predicate.frames, predicate.cur, values[i].values[2])

\* Operation::Cond: unwrap() panics when no predicate is true
Operation_Cond(fs, cur, values, i) == FindClause(fs, cur, values, i)

\* base^exponent for an exponent >= 0
IntPow(base, exponent) ==
    IF exponent = 0 THEN 1 ELSE base * IntPow(base, exponent - 1)

\* x.powi(e) and x.powf(e) for an exponent whose value is the integer e
F64_powi(x, e) ==
    IF e >= 0 THEN F64(IntPow(x.n, e), IntPow(x.d, e))
    ELSE F64_div([n |-> 1, d |-> 1], F64(IntPow(x.n, 0 - e), IntPow(x.d, 0 - e)))

\* the pow of a Float exponent with no fraction, the only ones kept
IsIntegral(value) == IF value.tag = "Int" THEN TRUE ELSE value.d = 1

\* first.pow(second as u32) on i128. A negative second becomes
\* 2^32 + second, as odd or even as second: the power of 0, 1 or -1 is still
\* exact, any other overflows i128, which panics with overflow checks and
\* wraps without: to 0 for an even base (an odd base wraps to a value that
\* is left out). The powers of the exponents >= 0 drawn here fit i128
Int_pow(first, second) ==
    IF second >= 0 THEN SE_Int(IntPow(first, second))
    ELSE IF first \in {0, 1} THEN SE_Int(first)
    ELSE IF first = 0 - 1 THEN SE_Int(IF second % 2 = 0 THEN 1 ELSE 0 - 1)
    ELSE IF overflow_checks THEN [tag |-> "Panic"]
    ELSE CASE first % 2 = 0 -> SE_Int(0)

\* the match of Operation::Pow on (value_first, value_second)
Pow(value_first, value_second) ==
    IF ~(IsNumber(value_first) /\ IsNumber(value_second)) THEN [tag |-> "Panic"]
    ELSE IF value_first.tag = "Int" /\ value_second.tag = "Int"
    THEN Int_pow(value_first.i, value_second.i)
    ELSE CASE IsIntegral(value_second) ->
             Float_of(F64_powi(AsF64(value_first), AsF64(value_second).n))

\* Operation::Pow: the two first arguments, a panic when one is missing
Operation_Pow(fs, cur, values, i) ==
    IF i > Len(values) THEN Panicked(fs, cur)
    ELSE LET first == eval(fs, cur, values[i])
         IN  IF first.panicked THEN first
             ELSE IF i + 1 > Len(values) THEN Panicked(first.frames, first.cur)
             ELSE LET second == eval(first.frames, first.cur, values[i + 1])
                  IN  IF second.panicked THEN second
                      ELSE LET z == Pow(first.value, second.value)
                           IN  IF z.tag = "Panic"
                               THEN Panicked(second.frames, second.cur)
                               ELSE Returned(second.frames, second.cur, z)

\* the bindings of a let, one after the other: each init expression is
\* evaluated in the frame of the let, where the earlier names are bound
BindLet(fs, cur, bindings, k) ==
    IF k > Len(bindings) THEN Returned(fs, cur, SE_Nil)
    ELSE IF bindings[k].tag # "Expression" THEN Panicked(fs, cur)
    ELSE IF Len(bindings[k].values) # 2 THEN Panicked(fs, cur)
    ELSE IF bindings[k].values[1].tag # "Symbol" THEN Panicked(fs, cur)
    ELSE LET r == eval(fs, cur, bindings[k].values[2])
         IN  IF r.panicked THEN r
             ELSE BindLet(Env_define_symbol(r.frames, r.cur,
                                            bindings[k].values[1].name, r.value),
                          r.cur, bindings, k + 1)

\* Operation::Let, which eval_operation has no arm for: a new frame, the
\* bindings in order, the body in that frame, the frame popped
Operation_Let(fs, cur, values, i) ==
    IF i + 1 > Len(values) \/ values[i].tag # "Expression" THEN Panicked(fs, cur)
    ELSE LET pushed == Env_add_frame(fs, cur)
             bound == BindLet(pushed.frames, pushed.cur, values[i].values, 1)
         IN  IF bound.panicked THEN bound
             ELSE LET r == eval(bound.frames, bound.cur, values[i + 1])
                  IN  IF r.panicked THEN r
                      ELSE LET popped == Env_pop_frame(r.frames, r.cur)
                           IN  IF popped.panicked THEN Panicked(r.frames, r.cur)
                               ELSE Returned(r.frames, popped.cur, r.value)

\* Operation::Cons: the two first arguments, head before tail; a panic when
\* one is missing
Operation_Cons(fs, cur, values, i) ==
    IF i > Len(values) THEN Panicked(fs, cur)
    ELSE LET head == eval(fs, cur, values[i])
         IN  IF head.panicked THEN head
             ELSE IF i + 1 > Len(values) THEN Panicked(head.frames, head.cur)
             ELSE LET tail == eval(head.frames, head.cur, values[i + 1])
                  IN  IF tail.panicked THEN tail
                      ELSE Returned(tail.frames, tail.cur,
                                    SE_Cons(head.value, tail.value))

\* expression_iter.map(eval_w_env).rfold(Nil, ..): rfold takes the elements
\* of the map from the back, so values[k] is evaluated for k from the last
\* argument down to the first, values[i]
FoldList(fs, cur, values, i, k, acc) ==
    IF k < i THEN Returned(fs, cur, acc)
    ELSE LET elem == eval(fs, cur, values[k])
         IN  IF elem.panicked THEN elem
             ELSE FoldList(elem.frames, elem.cur, values, i, k - 1,
                           SE_Cons(elem.value, acc))

\* Operation::List
Operation_List(fs, cur, values, i) ==
    FoldList(fs, cur, values, i, Len(values), SE_Nil)

\* Operation::Car: the head of a Cons, a panic on anything else
Operation_Car(fs, cur, values, i) ==
    IF i > Len(values) THEN Panicked(fs, cur)
    ELSE LET r == eval(fs, cur, values[i])
         IN  IF r.panicked THEN r
             ELSE IF r.value.tag = "Cons"
                  THEN Returned(r.frames, r.cur, r.value.head)
             ELSE Panicked(r.frames, r.cur)

\* Operation::Cdr: the tail of a Cons, a panic on anything else
Operation_Cdr(fs, cur, values, i) ==
    IF i > Len(values) THEN Panicked(fs, cur)
    ELSE LET r == eval(fs, cur, values[i])
         IN  IF r.panicked THEN r
             ELSE IF r.value.tag = "Cons"
                  THEN Returned(r.frames, r.cur, r.value.tail)
             ELSE Panicked(r.frames, r.cur)

\* Operation::Quote
Operation_Quote(fs, cur, values, i) ==
    IF i > Len(values) THEN Panicked(fs, cur) ELSE Returned(fs, cur, values[i])

eval_operation(fs, cur, operation, values, i) ==
    CASE operation \in {"Add", "Substract", "Multiply", "Divide"} ->
             Operation_Arith(fs, cur, operation, values, i)
      [] operation = "Begin" -> Operation_Begin(fs, cur, values, i)
      [] operation = "Module" -> Operation_Module(fs, cur, values, i)
      [] operation = "Define" -> Operation_Define(fs, cur, values, i)
      [] operation = "Set" -> Operation_Set(fs, cur, values, i)
      [] operation = "Lambda" -> Operation_Lambda(fs, cur, values, i)
      [] operation = "Quote" -> Operation_Quote(fs, cur, values, i)
      [] operation \in {"Eq", "Smaller", "Greater", "SmallerOrEqual",
                        "GreaterOrEqual"} ->
             Operation_Compare(fs, cur, operation, values, i)
      [] operation = "If" -> Operation_If(fs, cur, values, i)
      [] operation = "Cond" -> Operation_Cond(fs, cur, values, i)
      [] operation = "Let" -> Operation_Let(fs, cur, values, i)
      [] operation = "Pow" -> Operation_Pow(fs, cur, values, i)
      [] operation = "Cons" -> Operation_Cons(fs, cur, values, i)
      [] operation = "List" -> Operation_List(fs, cur, values, i)
      [] operation = "Car" -> Operation_Car(fs, cur, values, i)
      [] operation = "Cdr" -> Operation_Cdr(fs, cur, values, i)

\* arguments evaluated in the frame of the call instead of the caller's
BindParameters_in_callee(fs, cur, lenv, parameters, k, values, i) ==
    IF k > Len(parameters) \/ i > Len(values) THEN Returned(fs, cur, SE_Nil)
    ELSE LET r == eval(fs, lenv, values[i])
         IN  IF r.panicked THEN r
             ELSE BindParameters_in_callee(
                      Env_define_symbol(r.frames, lenv, parameters[k], r.value),
                      cur, lenv, parameters, k + 1, values, i + 1)
\* parameters.iter().zip(expression_iter): stops at the shorter of the two;
\* each argument is evaluated in the caller's env and defined in the call
\* frame, at which the lambda's own handle lenv is
BindParameters(fs, cur, lenv, parameters, k, values, i) ==
    IF k > Len(parameters) \/ i > Len(values) THEN Returned(fs, cur, SE_Nil)
    ELSE LET r == eval(fs, cur, values[i])
         IN  IF r.panicked THEN r
             ELSE BindParameters(
                      Env_define_symbol(r.frames, lenv, parameters[k], r.value),
                      r.cur, lenv, parameters, k + 1, values, i + 1)

\* an application that binds its parameters in the captured frame itself
eval_lambda_shared_frame(fs, cur, lambda, values, i) ==
    LET bound == BindParameters(fs, cur, lambda.env, lambda.parameters, 1, values, i)
    IN  IF bound.panicked THEN bound
        ELSE LET r == eval(bound.frames, lambda.env, lambda.body)
             IN  IF r.panicked THEN Panicked(r.frames, bound.cur)
                 ELSE Returned(r.frames, bound.cur, r.value)
\* an application that moves the handle of the stored closure itself:
\* add_frame leaves every stored copy of the closure at the call frame for
\* the time of the call, and pop_frame takes it back
eval_lambda_on_stored_handle(fs, cur, lambda, values, i) ==
    LET pushed == Env_add_frame(fs, lambda.env)
        moved == [lambda EXCEPT !.env = pushed.cur]
        at_call == [f \in 1..Len(pushed.frames) |->
                       [pushed.frames[f] EXCEPT !.bindings =
                           [n \in DOMAIN @ |->
                               IF @[n] = lambda THEN moved ELSE @[n]]]]
        bound == BindParameters(at_call, cur, pushed.cur,
                                lambda.parameters, 1, values, i)
    IN  IF bound.panicked THEN bound
        ELSE LET r == eval(bound.frames, pushed.cur, lambda.body)
             IN  IF r.panicked THEN Panicked(r.frames, bound.cur)
                 ELSE Returned(
                          [f \in 1..Len(r.frames) |->
                              [r.frames[f] EXCEPT !.bindings =
                                  [n \in DOMAIN @ |->
                                      IF @[n] = moved THEN lambda ELSE @[n]]]],
                          bound.cur, r.value)
\* lambda is the Lambda value cloned out of the environment: its env is a
\* handle of its own, which add_frame and pop_frame move
eval_lambda(fs, cur, lambda, values, i) ==
    LET pushed == Env_add_frame(fs, lambda.env)
        bound == BindParameters(pushed.frames, cur, pushed.cur,
                                lambda.parameters, 1, values, i)
    IN  IF bound.panicked THEN bound
        ELSE LET r == eval(bound.frames, pushed.cur, lambda.body)
             IN  IF r.panicked THEN Panicked(r.frames, bound.cur)
                 ELSE LET popped == Env_pop_frame(r.frames, r.cur)
                      IN  IF popped.panicked THEN Panicked(r.frames, bound.cur)
                          ELSE Returned(r.frames, bound.cur, r.value)

\* an application whose frame is pushed on the caller's frame, not on the
\* captured one
eval_expression_on_caller_frame(fs, cur, expression) ==
    IF Len(expression) = 0 THEN Panicked(fs, cur)
    ELSE LET first == eval(fs, cur, expression[1])
         IN  IF first.panicked THEN first
             ELSE IF first.value.tag = "Operation"
                  THEN eval_operation(first.frames, first.cur, first.value.op, expression, 2)
             ELSE IF first.value.tag = "Lambda"
                  THEN eval_lambda(first.frames, first.cur,
                                   [first.value EXCEPT !.env = first.cur],
                                   expression, 2)
             ELSE Panicked(first.frames, first.cur)
eval_expression(fs, cur, expression) ==
    IF Len(expression) = 0 THEN Panicked(fs, cur)
    ELSE LET first == eval(fs, cur, expression[1])
         IN  IF first.panicked THEN first
             ELSE IF first.value.tag = "Operation"
                  THEN eval_operation(first.frames, first.cur, first.value.op, expression, 2)
             ELSE IF first.value.tag = "Lambda"
                  THEN eval_lambda(first.frames, first.cur, first.value, expression, 2)
             ELSE Panicked(first.frames, first.cur)

eval(fs, cur, expression) ==
    IF expression.tag = "Symbol"
    THEN LET found == Env_find_symbol(fs, cur, expression.name)
         IN  IF found.tag = "Ok" THEN Returned(fs, cur, found.value)
             ELSE Panicked(fs, cur)
    ELSE IF expression.tag = "Expression"
    THEN eval_expression(fs, cur, expression.values)
    ELSE Returned(fs, cur, expression)

\* ------------------------------------------------------------- state
Range(s) == {s[i] : i \in DOMAIN s}

\* every symbol of Names as find sees it through a handle at frame cur
View(fs, cur) == [n \in Names |-> Env_find_symbol(fs, cur, n)]

\* phase: "off" (scopes are not followed), "none", "open" (between an
\* add_frame and its pop_frame), "popped" (right after that pop_frame)
NoMark ==
    [phase |-> "none", h |-> 0, frame |-> 0,
     view |-> [n \in Names |-> Err(VariableNotFound(n))],
     locals |-> EmptyBindings, sets |-> EmptyBindings]

NoPanic == [site |-> "", h |-> 0]

\* count: forms evaluated; defined: account is bound to (make-account b0);
\* amounts: what account was applied to since; applied, result: the last
\* form was an application and this is what eval_str gave for it
NoSession ==
    [count |-> 0, defined |-> FALSE, b0 |-> SE_Nil, amounts |-> <<>>,
     applied |-> FALSE, result |-> SE_Nil]

Init ==
    /\ frames = Env_new.frames
    /\ handles = <<Env_new.cur>>
    /\ status = "running"
    /\ panic = NoPanic
    /\ captured = <<[from |-> 0, frame |-> 0, own |-> 1]>>
    /\ mark = [NoMark EXCEPT !.phase = "off"]
    /\ session = NoSession
    /\ overflow_checks = TRUE

\* a scope that was popped, or that another handle wrote into, is forgotten
MarkKept(h, writes) ==
    IF mark.phase = "off" \/ (mark.phase = "open" /\ (mark.h = h \/ ~writes))
    THEN mark ELSE NoMark

\* env.define_symbol(symbol, value)
Define(h, symbol, value) ==
    /\ status = "running"
    /\ frames' = Env_define_symbol(frames, handles[h], symbol, value)
    /\ mark' = LET m == MarkKept(h, TRUE)
               IN  IF m.phase = "open"
                   THEN [m EXCEPT !.locals = Insert(@, symbol, value)]
                   ELSE m
    /\ UNCHANGED <<handles, status, panic, captured, session, overflow_checks>>

\* env.find_symbol(symbol): takes &self, the result goes to the caller
Find(h, symbol) ==
    /\ status = "running"
    /\ Env_find_symbol(frames, handles[h], symbol).tag \in {"Ok", "Err"}
    /\ mark' = MarkKept(h, FALSE)
    /\ UNCHANGED <<frames, handles, status, panic, captured, session, overflow_checks>>

\* env.set_symbol(symbol, value)
Set(h, symbol, value) ==
    /\ status = "running"
    /\ LET r == Env_set_symbol(frames, handles[h], symbol, value)
       IN  /\ frames' = r.frames
           /\ mark' = LET m == MarkKept(h, TRUE)
                      IN  IF m.phase = "open" /\ r.result.tag = "Ok"
                          THEN IF symbol \in DOMAIN m.locals
                               THEN [m EXCEPT !.locals = Insert(@, symbol, value)]
                               ELSE [m EXCEPT !.sets = Insert(@, symbol, value)]
                          ELSE m
    /\ UNCHANGED <<handles, status, panic, captured, session, overflow_checks>>

\* env.add_frame()
AddFrame(h) ==
    /\ status = "running"
    /\ Len(frames) < MaxFrames
    /\ LET r == Env_add_frame(frames, handles[h])
       IN  /\ frames' = r.frames
           /\ handles' = [handles EXCEPT ![h] = r.cur]
    /\ mark' = IF mark.phase = "off" THEN mark
               ELSE [phase |-> "open", h |-> h, frame |-> handles[h],
                     view |-> View(frames, handles[h]),
                     locals |-> EmptyBindings, sets |-> EmptyBindings]
    /\ UNCHANGED <<status, panic, captured, session, overflow_checks>>

\* env.pop_frame() through handle h: the assignment to current_frame drops
\* the Rc the handle held on the frame it leaves
Popped(fs, hs, h) ==
    LET r == Env_pop_frame(fs, hs[h])
        moved == [hs EXCEPT ![h] = r.cur]
    IN  IF r.panicked
        THEN [frames |-> fs, handles |-> hs, panicked |-> TRUE]
        ELSE [frames |-> Release(fs, Range(moved), {hs[h]}),
              handles |-> moved, panicked |-> FALSE]

\* a panic ends the program
PopFrame(h) ==
    /\ status = "running"
    /\ LET r == Popped(frames, handles, h)
       IN  /\ frames' = r.frames
           /\ handles' = r.handles
           /\ status' = IF r.panicked THEN "aborted" ELSE status
           /\ panic' = IF r.panicked THEN [site |-> "pop_frame", h |-> h] ELSE panic
    /\ mark' = IF mark.phase = "open" /\ mark.h = h
               THEN [mark EXCEPT !.phase = "popped"]
               ELSE MarkKept(h, FALSE)
    /\ UNCHANGED <<captured, session, overflow_checks>>

\* let lambda_env = env.get_lambda_env()
GetLambdaEnv(h) ==
    /\ status = "running"
    /\ Len(frames) < MaxFrames
    /\ Len(handles) < Cardinality(EnvVars)
    /\ LET r == Env_get_lambda_env(frames, handles[h])
       IN  /\ frames' = r.frames
           /\ handles' = Append(handles, r.env)
           /\ captured' = Append(captured,
                  [from |-> h, frame |-> handles[h], own |-> r.env])
    /\ mark' = MarkKept(h, FALSE)
    /\ UNCHANGED <<status, panic, session, overflow_checks>>

Next ==
    \/ \E h \in DOMAIN handles, n \in Names, v \in Values : Define(h, n, v)
    \/ \E h \in DOMAIN handles, n \in Names : Find(h, n)
    \/ \E h \in DOMAIN handles, n \in Names, v \in Values : Set(h, n, v)
    \/ \E h \in DOMAIN handles : AddFrame(h)
    \/ \E h \in DOMAIN handles : PopFrame(h)
    \/ \E h \in DOMAIN handles : GetLambdaEnv(h)

Spec == Init /\ [][Next]_vars

\* one handle, its scopes followed from add_frame to the matching pop_frame
ScopeInit ==
    /\ frames = Env_new.frames
    /\ handles = <<Env_new.cur>>
    /\ status = "running"
    /\ panic = NoPanic
    /\ captured = <<[from |-> 0, frame |-> 0, own |-> 1]>>
    /\ mark = NoMark
    /\ session = NoSession
    /\ overflow_checks = TRUE

ScopeNext ==
    \/ \E n \in Names, v \in Values : Define(1, n, v)
    \/ \E n \in Names : Find(1, n)
    \/ \E n \in Names, v \in Values : Set(1, n, v)
    \/ AddFrame(1)
    \/ PopFrame(1)

ScopeSpec == ScopeInit /\ [][ScopeNext]_vars

\* ------------------------------------------------- a REPL session
MaxForms == 6
Balances == {SE_Float(100), SE_Int(10)}
Amounts == {SE_Float(0 - 20), SE_Int(5)}

Form(values) == SE_Expression(values)

\* what parse gives for the three texts of the account_state test
MakeAccountForm ==
    Form(<<SE_Operation("Define"), SE_Symbol("make-account"),
           Form(<<SE_Operation("Lambda"), Form(<<SE_Symbol("balance")>>),
                  Form(<<SE_Operation("Lambda"), Form(<<SE_Symbol("amt")>>),
                         Form(<<SE_Operation("Begin"),
                                Form(<<SE_Operation("Set"), SE_Symbol("balance"),
                                       Form(<<SE_Operation("Add"),
                                              SE_Symbol("balance"),
                                              SE_Symbol("amt")>>)>>),
                                SE_Symbol("balance")>>)>>)>>)>>)

AccountForm(b0) ==
    Form(<<SE_Operation("Define"), SE_Symbol("account"),
           Form(<<SE_Symbol("make-account"), b0>>)>>)

ApplyForm(amt) == Form(<<SE_Symbol("account"), amt>>)

\* eval_str on the parsed text, with the one Env of the REPL; what the
\* evaluation no longer holds is dropped when it returns
eval_str(expression) ==
    LET r == eval(frames, handles[1], expression)
    IN  IF r.panicked THEN r
        ELSE [r EXCEPT !.frames = Release(r.frames, {r.cur}, {})]

EvalStr(r) ==
    /\ status = "running"
    /\ session.count < MaxForms
    /\ frames' = r.frames
    /\ handles' = <<r.cur>>
    /\ status' = IF r.panicked THEN "aborted" ELSE "running"
    /\ panic' = IF r.panicked THEN [site |-> "eval", h |-> 1] ELSE panic
    /\ UNCHANGED <<captured, mark, overflow_checks>>

DefineMakeAccount ==
    LET r == eval_str(MakeAccountForm)
    IN  /\ EvalStr(r)
        /\ session' = [session EXCEPT !.count = @ + 1, !.applied = FALSE,
                                      !.result = r.value]

DefineAccount(b0) ==
    LET r == eval_str(AccountForm(b0))
    IN  /\ EvalStr(r)
        /\ session' = [count |-> session.count + 1, defined |-> ~r.panicked,
                       b0 |-> b0, amounts |-> <<>>, applied |-> FALSE,
                       result |-> r.value]

ApplyAccount(amt) ==
    LET r == eval_str(ApplyForm(amt))
    IN  /\ EvalStr(r)
        /\ session' = [session EXCEPT
               !.count = @ + 1, !.amounts = Append(@, amt), !.applied = TRUE,
               !.result = IF r.panicked THEN [tag |-> "Panic"] ELSE r.value]

EvalInit == Init

EvalNext ==
    \/ DefineMakeAccount
    \/ \E b0 \in Balances : DefineAccount(b0)
    \/ \E amt \in Amounts : ApplyAccount(amt)

EvalSpec == EvalInit /\ [][EvalNext]_vars

\* ------------------------------------- a session with several closures
MaxCalls == 5
AccountNames == {"acc1", "acc2"}
SumArgs == {SE_Int(1), SE_Int(3)}

\* (define sum (lambda (n) (cond ((< n 1) 0) (#t (+ (sum (- n 1)) n)))))
SumForm ==
    Form(<<SE_Operation("Define"), SE_Symbol("sum"),
           Form(<<SE_Operation("Lambda"), Form(<<SE_Symbol("n")>>),
                  Form(<<SE_Operation("Cond"),
                         Form(<<Form(<<SE_Operation("Smaller"), SE_Symbol("n"),
                                       SE_Int(1)>>),
                                SE_Int(0)>>),
                         Form(<<SE_Bool(TRUE),
                                Form(<<SE_Operation("Add"),
                                       Form(<<SE_Symbol("sum"),
                                              Form(<<SE_Operation("Substract"),
                                                     SE_Symbol("n"), SE_Int(1)>>)>>),
                                       SE_Symbol("n")>>)>>)>>)>>)>>)

NamedAccountForm(name, b0) ==
    Form(<<SE_Operation("Define"), SE_Symbol(name),
           Form(<<SE_Symbol("make-account"), b0>>)>>)

CallForm(name, argument) == Form(<<SE_Symbol(name), argument>>)

\* accounts: for each account name bound so far, the balance it was made
\* with and the amounts it was applied to; name, argument: the closure the
\* last form applied and to what
NoCalls ==
    [count |-> 0, defined |-> FALSE, b0 |-> SE_Nil, amounts |-> <<>>,
     applied |-> FALSE, result |-> SE_Nil,
     accounts |-> EmptyBindings, name |-> "", argument |-> SE_Nil]

DefineNamedAccount(name, b0) ==
    LET r == eval_str(NamedAccountForm(name, b0))
    IN  /\ session.count < MaxCalls
        /\ EvalStr(r)
        /\ session' = [session EXCEPT
               !.count = @ + 1, !.applied = FALSE, !.result = r.value,
               !.accounts = IF r.panicked THEN @
                            ELSE Insert(@, name, [b0 |-> b0, amounts |-> <<>>])]

DefineSum ==
    LET r == eval_str(SumForm)
    IN  /\ session.count < MaxCalls
        /\ EvalStr(r)
        /\ session' = [session EXCEPT
               !.count = @ + 1, !.applied = FALSE, !.result = r.value]

Call(name, argument) ==
    LET r == eval_str(CallForm(name, argument))
    IN  /\ session.count < MaxCalls
        /\ EvalStr(r)
        /\ session' = [session EXCEPT
               !.count = @ + 1, !.applied = TRUE,
               !.name = name, !.argument = argument,
               !.result = IF r.panicked THEN [tag |-> "Panic"] ELSE r.value,
               !.accounts = IF name \in DOMAIN @
                            THEN [@ EXCEPT ![name].amounts = Append(@, argument)]
                            ELSE @]

ClosureInit ==
    /\ frames = Env_new.frames
    /\ handles = <<Env_new.cur>>
    /\ status = "running"
    /\ panic = NoPanic
    /\ captured = <<[from |-> 0, frame |-> 0, own |-> 1]>>
    /\ mark = [NoMark EXCEPT !.phase = "off"]
    /\ session = NoCalls
    /\ overflow_checks = TRUE

ClosureNext ==
    \/ session.count < MaxCalls /\ DefineMakeAccount
    \/ \E name \in AccountNames, b0 \in Balances : DefineNamedAccount(name, b0)
    \/ DefineSum
    \/ \E name \in AccountNames, amt \in Amounts : Call(name, amt)
    \/ \E n \in SumArgs : Call("sum", n)

ClosureSpec == ClosureInit /\ [][ClosureNext]_vars

\* ------------------------------------------------- a session with fib
MaxFibForms == 4
MaxFibArg == 4

\* (define fib (lambda (n) (cond ((< n 2) 1)
\*                               (#t (+ (fib (- n 1)) (fib (- n 2)))))))
FibForm ==
    Form(<<SE_Operation("Define"), SE_Symbol("fib"),
           Form(<<SE_Operation("Lambda"), Form(<<SE_Symbol("n")>>),
                  Form(<<SE_Operation("Cond"),
                         Form(<<Form(<<SE_Operation("Smaller"), SE_Symbol("n"),
                                       SE_Int(2)>>),
                                SE_Int(1)>>),
                         Form(<<SE_Bool(TRUE),
                                Form(<<SE_Operation("Add"),
                                       Form(<<SE_Symbol("fib"),
                                              Form(<<SE_Operation("Substract"),
                                                     SE_Symbol("n"), SE_Int(1)>>)>>),
                                       Form(<<SE_Symbol("fib"),
                                              Form(<<SE_Operation("Substract"),
                                                     SE_Symbol("n"),
                                                     SE_Int(2)>>)>>)>>)>>)>>)>>)>>)

DefineFib ==
    LET r == eval_str(FibForm)
    IN  /\ session.count < MaxFibForms
        /\ EvalStr(r)
        /\ session' = [session EXCEPT
               !.count = @ + 1, !.applied = FALSE, !.result = r.value]

CallFib(n) ==
    /\ session.count < MaxFibForms
    /\ Call("fib", SE_Int(n))

FibNext ==
    \/ DefineFib
    \/ \E n \in 0..MaxFibArg : CallFib(n)

FibSpec == ClosureInit /\ [][FibNext]_vars

\* ------------------------------- one built-in operation on literals
MaxArgs == 3
MaxNumber == 4

\* the literals parse gives for small numerals: Int and Float, 0.5 among them
Numbers ==
    {SE_Int(i) : i \in (0 - 2)..MaxNumber}
        \cup {SE_Float(0 - 1), SE_Float(2), Float_of(F64(1, 2))}

Comparisons == {"Eq", "Smaller", "Greater", "SmallerOrEqual", "GreaterOrEqual"}
Arithmetics == {"Add", "Substract", "Multiply", "Divide"}

RECURSIVE ArgumentsUpTo(_)
ArgumentsUpTo(n) ==
    IF n = 0 THEN {<<>>}
    ELSE LET shorter == ArgumentsUpTo(n - 1)
         IN  shorter \cup {Append(arguments, v) : arguments \in shorter, v \in Numbers}

\* the largest exponent: that of (pow 2 10)
MaxExponent == 10

\* (pow base 10) next to the arguments every operation is given
PowArguments == {<<base, SE_Int(MaxExponent)>> : base \in Numbers}

\* the pow forms whose value is computed here: an exponent with no fraction,
\* and, where overflow wraps, no odd base beyond 1 under a negative exponent
PowComputable(arguments, checks) ==
    Len(arguments) >= 2 =>
        /\ IsIntegral(arguments[2])
        /\ \/ checks
           \/ arguments[1].tag # "Int" \/ arguments[2].tag # "Int"
           \/ arguments[2].i >= 0
           \/ arguments[1].i % 2 = 0
           \/ arguments[1].i \in {1, 0 - 1}

\* the arguments an operation is given
OperationArguments(operation, checks) ==
    IF operation = "Pow"
    THEN {arguments \in ArgumentsUpTo(MaxArgs) \cup PowArguments :
              PowComputable(arguments, checks)}
    ELSE ArgumentsUpTo(MaxArgs)

\* (operation argument ...)
OperationForm(operation, arguments) ==
    Form(<<SE_Operation(operation)>> \o arguments)

\* operation, arguments: the form the session is given; count: 1 once it
\* was evaluated; result: what it gave
NoOperation(operation, arguments) ==
    [count |-> 0, operation |-> operation, arguments |-> arguments,
     result |-> SE_Nil]

EvalOperation ==
    LET r == eval_str(OperationForm(session.operation, session.arguments))
    IN  /\ session.count = 0
        /\ EvalStr(r)
        /\ session' = [session EXCEPT
               !.count = 1,
               !.result = IF r.panicked THEN [tag |-> "Panic"] ELSE r.value]

OperationInit ==
    /\ frames = Env_new.frames
    /\ handles = <<Env_new.cur>>
    /\ status = "running"
    /\ panic = NoPanic
    /\ captured = <<[from |-> 0, frame |-> 0, own |-> 1]>>
    /\ mark = [NoMark EXCEPT !.phase = "off"]
    /\ overflow_checks \in BOOLEAN
    /\ \E operation \in Comparisons \cup Arithmetics \cup {"Pow"} :
           \E arguments \in OperationArguments(operation, overflow_checks) :
               session = NoOperation(operation, arguments)

OperationNext == EvalOperation

OperationSpec == OperationInit /\ [][OperationNext]_vars

\* --------------------------- a session of define, set!, begin and symbols
ProgramNames == {"x", "y"}
ProgramValues == {SE_Int(1), SE_Int(2)}

DefineForm(name, value) ==
    Form(<<SE_Operation("Define"), SE_Symbol(name), value>>)
SetForm(name, value) ==
    Form(<<SE_Operation("Set"), SE_Symbol(name), value>>)
BeginForm(body) == Form(<<SE_Operation("Begin")>> \o body)

\* x    (define x 1)    (set! x 1)    (begin)    (begin (define x 1) y)
\* (begin (set! x 1) y)    (begin (begin (define x 1)) y)
Programs ==
    {SE_Symbol(n) : n \in ProgramNames}
        \cup {DefineForm(n, v) : n \in ProgramNames, v \in ProgramValues}
        \cup {SetForm(n, v) : n \in ProgramNames, v \in ProgramValues}
        \cup {BeginForm(<<>>)}
        \cup {BeginForm(<<DefineForm(n, v), SE_Symbol(m)>>) :
                 n \in ProgramNames, m \in ProgramNames, v \in ProgramValues}
        \cup {BeginForm(<<SetForm(n, v), SE_Symbol(m)>>) :
                 n \in ProgramNames, m \in ProgramNames, v \in ProgramValues}
        \cup {BeginForm(<<BeginForm(<<DefineForm(n, v)>>), SE_Symbol(m)>>) :
                 n \in ProgramNames, m \in ProgramNames, v \in ProgramValues}

\* form: the form evaluated last; result: what eval_str gave for it
NoProgram == [count |-> 0, form |-> SE_Nil, result |-> SE_Nil]

EvalProgram(form) ==
    LET r == eval_str(form)
    IN  /\ EvalStr(r)
        /\ session' = [count |-> session.count + 1, form |-> form,
                       result |-> IF r.panicked THEN [tag |-> "Panic"]
                                  ELSE r.value]

ProgramInit ==
    /\ frames = Env_new.frames
    /\ handles = <<Env_new.cur>>
    /\ status = "running"
    /\ panic = NoPanic
    /\ captured = <<[from |-> 0, frame |-> 0, own |-> 1]>>
    /\ mark = [NoMark EXCEPT !.phase = "off"]
    /\ session = NoProgram
    /\ overflow_checks = TRUE

ProgramNext == \E form \in Programs : EvalProgram(form)

ProgramSpec == ProgramInit /\ [][ProgramNext]_vars

\* ------------------------------------------------- a session with let
LetNames == {"a", "b"}
LetValues == {SE_Int(1), SE_Int(5)}

\* (let ((a x) (b (+ y a))) (+ a b))
LetForm(x, y) ==
    Form(<<SE_Operation("Let"),
           Form(<<Form(<<SE_Symbol("a"), x>>),
                  Form(<<SE_Symbol("b"),
                         Form(<<SE_Operation("Add"), y, SE_Symbol("a")>>)>>)>>),
           Form(<<SE_Operation("Add"), SE_Symbol("a"), SE_Symbol("b")>>)>>)

EvalLet(x, y) == EvalProgram(LetForm(x, y))

EvalDefine(name, value) == EvalProgram(DefineForm(name, value))

LetNext ==
    \/ \E x \in LetValues, y \in LetValues : EvalLet(x, y)
    \/ \E name \in LetNames, value \in LetValues : EvalDefine(name, value)

LetSpec == ProgramInit /\ [][LetNext]_vars

\* ------------------------------------------ the chain seen from a frame
\* the frames from f outwards to the root, f first
RECURSIVE Path(_, _)
Path(fs, f) ==
    IF fs[f].outer = None THEN <<f>> ELSE <<f>> \o Path(fs, fs[f].outer)

Min(S) == CHOOSE x \in S : \A y \in S : x <= y

\* the first frame of the chain from f that has a binding of n; None if none has
Nearest(fs, f, n) ==
    LET p == Path(fs, f)
        D == {i \in 1..Len(p) : n \in DOMAIN fs[p[i]].bindings}
    IN  IF D = {} THEN None ELSE p[Min(D)]

KeySets(fs) == [f \in 1..Len(fs) |-> DOMAIN fs[f].bindings]

\* ---------------------------------------------------------------- C1
\* C1: find(name) through a handle returns the binding of name in the first
\* frame, going from the handle's current frame outwards, that defines name,
\* and VariableNotFound(name) exactly when no frame of that chain defines it;
\* find changes no frame.
FindReturnsInnermost ==
    \A h \in DOMAIN handles, n \in Names :
        LET t == Nearest(frames, handles[h], n)
        IN  Env_find_symbol(frames, handles[h], n) =
                IF t = None THEN Err(VariableNotFound(n))
                ELSE Ok(frames[t].bindings[n])

\* find takes &self: a step that is a find leaves every frame and handle alone
C1_FindInnermost ==
    /\ []FindReturnsInnermost
    /\ [][\A h \in DOMAIN handles, n \in Names :
            Find(h, n) => UNCHANGED <<frames, handles, status>>]_vars

\* a handle under two frames that bind "a" differently and no binding of its
\* own: find gives the nearer of the two
FindSkipsToNearerOuter ==
    \E h \in DOMAIN handles :
        LET p == Path(frames, handles[h])
        IN  /\ Len(p) = 3
            /\ "a" \notin DOMAIN frames[p[1]].bindings
            /\ "a" \in DOMAIN frames[p[2]].bindings
            /\ "a" \in DOMAIN frames[p[3]].bindings
            /\ frames[p[2]].bindings["a"] # frames[p[3]].bindings["a"]
            /\ Env_find_symbol(frames, handles[h], "a") = Ok(frames[p[2]].bindings["a"])

\* ---------------------------------------------------------------- C2
\* C2: define(name, value) inserts or overwrites name in the current frame of
\* the handle and nothing else: the other bindings of that frame, its outer
\* link, every other frame and every handle stay as they were, and the call
\* does not fail.
DefineEffect(h, n, v) ==
    LET f == handles[h]
        after == Env_define_symbol(frames, f, n, v)
    IN  /\ Len(after) = Len(frames)
        /\ DOMAIN after[f].bindings = (DOMAIN frames[f].bindings) \cup {n}
        /\ after[f].bindings[n] = v
        /\ \A m \in (DOMAIN frames[f].bindings) \ {n} :
               after[f].bindings[m] = frames[f].bindings[m]
        /\ after[f].outer = frames[f].outer
        /\ \A g \in (1..Len(frames)) \ {f} : after[g] = frames[g]

C2_DefineCurrentFrameOnly ==
    \A h \in DOMAIN handles, n \in Names, v \in Values : DefineEffect(h, n, v)

\* a frame that is not the root binds "a" and "b", and shadows the "a" of its
\* outer frame: only a define through a handle at that frame put them there
DefineShadowedOuter ==
    \E h \in DOMAIN handles :
        LET f == handles[h]
            o == frames[f].outer
        IN  /\ o # None
            /\ DOMAIN frames[f].bindings = {"a", "b"}
            /\ "a" \in DOMAIN frames[o].bindings
            /\ frames[o].bindings["a"] # frames[f].bindings["a"]

\* ---------------------------------------------------------------- C3
\* C3: when a frame of the chain defines name, set(name, value) overwrites the
\* binding of name in the nearest such frame and nothing else: no frame gains
\* or loses a key, a binding of name further out keeps its value, and find
\* through every handle that resolves name to that frame gives the new value.
SetEffect(h, n, v) ==
    LET t == Nearest(frames, handles[h], n)
        r == Env_set_symbol(frames, handles[h], n, v)
        after == r.frames
    IN  t # None =>
          /\ r.result = Ok(Unit)
          /\ KeySets(after) = KeySets(frames)
          /\ after[t].bindings[n] = v
          /\ \A m \in (DOMAIN frames[t].bindings) \ {n} :
                 after[t].bindings[m] = frames[t].bindings[m]
          /\ after[t].outer = frames[t].outer
          /\ \A g \in (1..Len(frames)) \ {t} : after[g] = frames[g]
          /\ \A g \in DOMAIN handles :
                 Nearest(after, handles[g], n) = t
                     => Env_find_symbol(after, handles[g], n) = Ok(v)

C3_SetNearestOnly ==
    \A h \in DOMAIN handles, n \in Names, v \in Values : SetEffect(h, n, v)

\* two handles resolve "a" to the same frame, which is not the current frame
\* of one of them, and a frame further out binds "a" as well
SetSharedNearest ==
    \E h, g \in DOMAIN handles :
        LET t == Nearest(frames, handles[h], "a")
        IN  /\ h # g
            /\ t # None
            /\ t # handles[h]
            /\ Nearest(frames, handles[g], "a") = t
            /\ frames[t].outer # None
            /\ Nearest(frames, frames[t].outer, "a") # None
            /\ frames[Nearest(frames, frames[t].outer, "a")].bindings["a"]
                   # frames[t].bindings["a"]

\* ---------------------------------------------------------------- C4
\* C4: set(name, value) returns VariableNotFound(name) when no frame from the
\* current frame to the root defines name, and then no frame and no handle
\* changes; it returns an error in no other case.
SetUnbound(h, n, v) ==
    LET t == Nearest(frames, handles[h], n)
        r == Env_set_symbol(frames, handles[h], n, v)
    IN  /\ (t = None) <=> (r.result = Err(VariableNotFound(n)))
        /\ (t # None) <=> (r.result = Ok(Unit))
        /\ t = None => r.frames = frames

C4_SetUnboundFails ==
    \A h \in DOMAIN handles, n \in Names, v \in Values : SetUnbound(h, n, v)

\* a chain of two frames that binds "b" in both and "a" in neither
SetUnboundInDeepChain ==
    \E h \in DOMAIN handles :
        LET f == handles[h]
        IN  /\ frames[f].outer # None
            /\ Nearest(frames, f, "a") = None
            /\ "b" \in DOMAIN frames[f].bindings
            /\ "b" \in DOMAIN frames[frames[f].outer].bindings
            /\ Env_set_symbol(frames, f, "a", SE_Int(2)).result
                   = Err(VariableNotFound("a"))

\* ---------------------------------------------------------------- C5
\* C5: a name bound to v1 when add_frame is called and defined to v2 in the
\* pushed frame is found as v2 until the matching pop_frame and as v1 again
\* after it.
ShadowSeenInside ==
    mark.phase = "open" =>
        \A a \in DOMAIN mark.locals :
            Env_find_symbol(frames, handles[mark.h], a) = Ok(mark.locals[a])

OuterSeenAgain ==
    mark.phase = "popped" =>
        \A a \in (DOMAIN mark.locals) \ (DOMAIN mark.sets) :
            mark.view[a].tag = "Ok"
                => Env_find_symbol(frames, handles[mark.h], a) = mark.view[a]

C5_Shadowing == ShadowSeenInside /\ OuterSeenAgain

\* right after the pop: "a" was bound outside, was defined to another value
\* inside and never set before that, and is found with the outer value
ShadowUndoneByPop ==
    /\ mark.phase = "popped"
    /\ "a" \in (DOMAIN mark.locals) \ (DOMAIN mark.sets)
    /\ mark.view["a"].tag = "Ok"
    /\ mark.locals["a"] # mark.view["a"].value
    /\ Env_find_symbol(frames, handles[mark.h], "a") = mark.view["a"]

\* ---------------------------------------------------------------- C6
\* C6: after add_frame, any defines, sets and finds, and pop_frame on one
\* handle, the handle is back at the frame it had before the add_frame, a
\* name that was not bound then is not found, and a name that was bound then
\* has the value it had, or the value last set on it while the pushed frame
\* had no binding of it.
ExpectedAfterPop(n) ==
    IF mark.view[n].tag = "Err" THEN Err(VariableNotFound(n))
    ELSE IF n \in DOMAIN mark.sets THEN Ok(mark.sets[n])
    ELSE mark.view[n]

C6_PopRestoresScope ==
    mark.phase = "popped" =>
        /\ handles[mark.h] = mark.frame
        /\ \A n \in Names :
               Env_find_symbol(frames, handles[mark.h], n) = ExpectedAfterPop(n)

\* right after the pop: "b" was defined only inside and is gone, "a" was set
\* from inside to a value it did not have and keeps it
PopKeepsOnlyOuterSets ==
    /\ mark.phase = "popped"
    /\ mark.view["b"].tag = "Err"
    /\ "b" \in DOMAIN mark.locals
    /\ Env_find_symbol(frames, handles[mark.h], "b") = Err(VariableNotFound("b"))
    /\ "a" \in DOMAIN mark.sets
    /\ mark.view["a"] # Ok(mark.sets["a"])
    /\ Env_find_symbol(frames, handles[mark.h], "a") = Ok(mark.sets["a"])

\* ---------------------------------------------------------------- C7
\* C7: pop_frame through a handle whose current frame has no outer frame
\* panics: the program is aborted, nothing is returned and no frame or handle
\* moves; through a handle whose current frame has an outer frame it does not
\* panic and the handle moves to that outer frame.
PopEffect(h) ==
    LET r == Popped(frames, handles, h)
        o == frames[handles[h]].outer
    IN  IF o = None
        THEN r.panicked /\ r.frames = frames /\ r.handles = handles
        ELSE ~r.panicked /\ r.handles = [handles EXCEPT ![h] = o]

C7_PopRootPanics ==
    /\ \A h \in DOMAIN handles : PopEffect(h)
    /\ status = "aborted" =>
           /\ panic.site = "pop_frame"
           /\ frames[handles[panic.h]].outer = None

\* the program was aborted by a pop_frame at a root while another handle was
\* in a frame that could have been popped
PopAtRootAborted ==
    /\ status = "aborted"
    /\ panic.site = "pop_frame"
    /\ frames[handles[panic.h]].outer = None
    /\ \E g \in DOMAIN handles : frames[handles[g]].outer # None

\* ---------------------------------------------------------------- C8
\* C8: get_lambda_env returns a new handle at a new empty frame whose outer
\* frame is the current frame of the caller, and changes neither the caller
\* nor any frame; while the caller stays in that frame and the new handle has
\* no binding of its own for a name bound in the captured scope, a set of
\* that name through either handle is what find gives through both.
CaptureEffect(h) ==
    LET r == Env_get_lambda_env(frames, handles[h])
    IN  /\ Len(r.frames) = Len(frames) + 1
        /\ r.env = Len(frames) + 1
        /\ r.frames[r.env] = [bindings |-> EmptyBindings,
                               outer |-> handles[h], live |-> TRUE]
        /\ \A f \in 1..Len(frames) : r.frames[f] = frames[f]

\* handle g was captured from handle d, d is still in the captured frame, g is
\* in the frame it was made with and that frame has no binding of n
SharesScope(g, d, n) ==
    /\ captured[g].from = d
    /\ handles[d] = captured[g].frame
    /\ handles[g] = captured[g].own
    /\ n \notin DOMAIN frames[captured[g].own].bindings
    /\ Env_find_symbol(frames, captured[g].frame, n).tag = "Ok"

SetSeenByBoth(h, n, v) ==
    LET after == Env_set_symbol(frames, handles[h], n, v).frames
    IN  \A g, d \in DOMAIN handles :
            (h \in {g, d} /\ SharesScope(g, d, n)) =>
                /\ Env_find_symbol(after, handles[g], n) = Ok(v)
                /\ Env_find_symbol(after, handles[d], n) = Ok(v)

C8_ClosureSharesFrame ==
    /\ \A h \in DOMAIN handles : CaptureEffect(h)
    /\ \A h \in DOMAIN handles, n \in Names, v \in Values : SetSeenByBoth(h, n, v)

\* a closure handle and its defining handle share a scope that binds "a", in
\* a frame that is not the root, to a value the root does not bind it to
ClosureSharesBoundName ==
    \E g, d \in DOMAIN handles :
        /\ SharesScope(g, d, "a")
        /\ frames[captured[g].frame].outer # None
        /\ "a" \in DOMAIN frames[captured[g].frame].bindings
        /\ Env_find_symbol(frames, handles[g], "a")
               = Ok(frames[captured[g].frame].bindings["a"])

\* ---------------------------------------------------------------- C9
\* C9 as stated: after the defining handle pops the captured frame, find
\* through the closure handle still gives the value the captured frame binds
\* name to, and find through the defining handle gives VariableNotFound.
\* g was captured from d at the frame d is in, and has no binding of its own
Captures(g, d) ==
    /\ captured[g].from = d
    /\ captured[g].frame = handles[d]
    /\ handles[g] = captured[g].own
    /\ frames[handles[d]].outer # None

ClosureStillFinds(g, d, n) ==
    LET r == Popped(frames, handles, d)
    IN  n \notin DOMAIN frames[handles[g]].bindings
            => Env_find_symbol(r.frames, r.handles[g], n)
                   = Ok(frames[handles[d]].bindings[n])

DefinerFindsAfterPop(d, n) ==
    LET r == Popped(frames, handles, d)
    IN  Env_find_symbol(r.frames, r.handles[d], n)

C9_PoppedNameNotFound ==
    \A g, d \in DOMAIN handles :
        Captures(g, d) =>
            \A n \in DOMAIN frames[handles[d]].bindings :
                /\ ClosureStillFinds(g, d, n)
                /\ DefinerFindsAfterPop(d, n) = Err(VariableNotFound(n))

\* C9 as amended: ... and find through the defining handle gives what the
\* frames outward of the popped one bind name to: VariableNotFound when none
\* of them binds it, the nearest outer binding otherwise.
C9_CapturedFrameOutlivesPop ==
    \A g, d \in DOMAIN handles :
        Captures(g, d) =>
            \A n \in DOMAIN frames[handles[d]].bindings :
                LET t == Nearest(frames, frames[handles[d]].outer, n)
                IN  /\ ClosureStillFinds(g, d, n)
                    /\ DefinerFindsAfterPop(d, n) =
                           IF t = None THEN Err(VariableNotFound(n))
                           ELSE Ok(frames[t].bindings[n])

\* the defining handle is back at the root, which has no binding of "a"; the
\* frame it left is held by the closure handle alone, which finds "a" in it
ClosureKeepsPoppedFrame ==
    \E g, d \in DOMAIN handles :
        LET F == captured[g].frame
        IN  /\ captured[g].from = d
            /\ handles[g] = captured[g].own
            /\ frames[handles[g]].outer = F
            /\ handles[d] = frames[F].outer
            /\ \A k \in DOMAIN handles : handles[k] # F
            /\ "a" \in DOMAIN frames[F].bindings
            /\ Env_find_symbol(frames, handles[g], "a") = Ok(frames[F].bindings["a"])
            /\ Env_find_symbol(frames, handles[d], "a") = Err(VariableNotFound("a"))

\* ---------------------------------------------------------------- C10
\* the number a value stands for, and the sum of a balance and amounts as
\* the numeric tower has it: a Float as soon as one operand is a Float
Number(value) == IF value.tag = "Int" THEN value.i ELSE value.f

RECURSIVE SumNumbers(_)
SumNumbers(amounts) ==
    IF amounts = <<>> THEN 0
    ELSE Number(amounts[1]) + SumNumbers(Tail(amounts))

Total(b0, amounts) ==
    LET n == Number(b0) + SumNumbers(amounts)
    IN  IF b0.tag = "Float" \/ \E k \in DOMAIN amounts : amounts[k].tag = "Float"
        THEN SE_Float(n) ELSE SE_Int(n)

\* C10: with account defined as (make-account b0), the k-th application
\* (account a_k) returns b0 + a_1 + ... + a_k, whatever the amounts applied
\* before it: the mutation of balance through the closure is cumulative.
C10_AccountCumulative ==
    (session.defined /\ session.applied) =>
        session.result = Total(session.b0, session.amounts)

\* 100.00, then -20.00 twice: the second application gave 60.0
AccountSecondWithdrawal ==
    /\ session.defined /\ session.applied
    /\ session.b0 = SE_Float(100)
    /\ session.amounts = <<SE_Float(0 - 20), SE_Float(0 - 20)>>
    /\ session.result = SE_Float(60)
    /\ status = "running"


\* ---------------------------------------------------------------- C11
\* the closures the global frame binds, and what they are applied to
Closures ==
    {c \in DOMAIN frames[handles[1]].bindings :
        frames[handles[1]].bindings[c].tag = "Lambda"}
Arguments == Amounts \cup SumArgs

\* applying closure c to argument a from the current state: the caller's
\* handle stays where it is, no frame that exists gains or loses a name, the
\* parameters are bound in a new frame pushed on the captured one, and the
\* caller finds under the parameter names what it found before
AppliedInOwnFrame(c, a) ==
    LET lambda == frames[handles[1]].bindings[c]
        r == eval(frames, handles[1], CallForm(c, a))
        params == Range(lambda.parameters)
    IN  /\ ~r.panicked
        /\ r.cur = handles[1]
        /\ \A f \in 1..Len(frames) :
              /\ DOMAIN r.frames[f].bindings = DOMAIN frames[f].bindings
              /\ r.frames[f].outer = frames[f].outer
        /\ \E f \in (Len(frames) + 1)..Len(r.frames) :
              /\ r.frames[f].outer = lambda.env
              /\ DOMAIN r.frames[f].bindings = params
              /\ \A p \in params : r.frames[f].bindings[p] = a
        /\ \A p \in params :
              Env_find_symbol(r.frames, r.cur, p)
                  = Env_find_symbol(frames, handles[1], p)

\* (sum k) runs k + 1 applications of sum inside one another: each has a
\* frame of its own on the captured frame, binding n to k, k - 1, ..., 0
NestedInOwnFrames(k) ==
    LET lambda == frames[handles[1]].bindings["sum"]
        r == eval(frames, handles[1], CallForm("sum", SE_Int(k)))
        calls == {f \in (Len(frames) + 1)..Len(r.frames) :
                     r.frames[f].outer = lambda.env
                     /\ DOMAIN r.frames[f].bindings = {"n"}}
    IN  /\ Cardinality(calls) = k + 1
        /\ {r.frames[f].bindings["n"] : f \in calls} = {SE_Int(j) : j \in 0..k}

\* what the last application gave: an account its own running total, sum
\* the sum of 1..k
AppliedSeparately ==
    (status = "running" /\ session.applied) =>
        /\ session.name \in DOMAIN session.accounts =>
              session.result = Total(session.accounts[session.name].b0,
                                     session.accounts[session.name].amounts)
        /\ session.name = "sum" =>
              session.result =
                  SE_Int((session.argument.i * (session.argument.i + 1)) \div 2)

\* C11: each application of a closure binds its parameters in a new frame of
\* its own, which neither the caller nor another application of the closure
\* (a nested one included) sees, while all applications share the variables
\* closed over; closures made by separate make-account calls have separate
\* balances.
C11_ApplicationOwnFrame ==
    /\ status = "running" =>
          /\ \A c \in Closures, a \in Arguments : AppliedInOwnFrame(c, a)
          /\ "sum" \in Closures => \A a \in SumArgs : NestedInOwnFrames(a.i)
    /\ AppliedSeparately

\* two accounts made by two make-account calls, both applied, with
\* different balances; the last application gave its own account's total
TwoAccountsApart ==
    /\ status = "running" /\ session.applied
    /\ DOMAIN session.accounts = AccountNames
    /\ \A name \in AccountNames : session.accounts[name].amounts # <<>>
    /\ Total(session.accounts["acc1"].b0, session.accounts["acc1"].amounts)
         # Total(session.accounts["acc2"].b0, session.accounts["acc2"].amounts)
    /\ session.name = "acc1"
    /\ session.result = Total(session.accounts["acc1"].b0,
                              session.accounts["acc1"].amounts)


\* ---------------------------------------------------------------- C12
\* the reference recurrence f(0) = f(1) = 1, f(n) = f(n - 1) + f(n - 2)
RECURSIVE RefFib(_)
RefFib(n) == IF n < 2 THEN 1 ELSE RefFib(n - 1) + RefFib(n - 2)

\* the number of frames from frame f to the root
Depth(fs, f) == Len(Path(fs, f))

FibApplied(n) ==
    LET r == eval(frames, handles[1], CallForm("fib", SE_Int(n)))
    IN  /\ ~r.panicked
        /\ r.value = SE_Int(RefFib(n))
        /\ Depth(r.frames, r.cur) = Depth(frames, handles[1])
        /\ r.cur = handles[1]

\* C12: once fib is defined globally, (fib n) returns for every n of the
\* range, its value is Int f(n) of the reference recurrence, and the global
\* environment is as deep after the call as before it.
C12_FibRecursion ==
    /\ (status = "running" /\ "fib" \in DOMAIN frames[handles[1]].bindings) =>
          \A n \in 0..MaxFibArg : FibApplied(n)
    /\ (session.applied /\ session.count >= 2) =>
          /\ status = "running"
          /\ session.result = SE_Int(RefFib(session.argument.i))
          /\ Depth(frames, handles[1]) = 1

\* (fib 4) gave Int 5: fib ran inside fib three applications deep, and both
\* recursive calls of one application returned
FibFourIsFive ==
    /\ status = "running" /\ session.applied
    /\ session.argument = SE_Int(4)
    /\ session.result = SE_Int(5)

\* ---------------------------------------------------------------- C13
\* the relation of a comparison on two Int
Related(operation, x, y) ==
    CASE operation = "Eq" -> x = y
      [] operation = "Smaller" -> x < y
      [] operation = "Greater" -> x > y
      [] operation = "SmallerOrEqual" -> x <= y
      [] operation = "GreaterOrEqual" -> x >= y

AllInt(arguments) == \A k \in DOMAIN arguments : arguments[k].tag = "Int"

\* the relation holds across every adjacent pair, in order
Chained(operation, arguments) ==
    \A k \in 1..(Len(arguments) - 1) :
        Related(operation, arguments[k].i, arguments[k + 1].i)

\* C13: a comparison over Int arguments is true exactly when the relation
\* holds across every adjacent pair of arguments in order.
C13_ComparisonChained ==
    (/\ session.count = 1
     /\ session.operation \in Comparisons
     /\ Len(session.arguments) >= 2
     /\ AllInt(session.arguments)) =>
        session.result = SE_Bool(Chained(session.operation, session.arguments))


\* ---------------------------------------------------------------- C14
\* C14: after every call of eval on the environment, failed or not, the
\* handle is at the frame it was at before the call (the root, for the
\* handle of the session), and a failure came back as an error value: the
\* program was not aborted.
C14_FrameBalance ==
    session.count > 0 =>
        /\ handles[1] = Env_new.cur
        /\ status = "running"


\* ---------------------------------------------------------------- C15
\* C15: evaluating a Symbol bound in no frame of the chain gives the caller
\* the error VariableNotFound(name): eval returns Err(VariableNotFound(name)),
\* the program is not aborted and the environment is as it was.
C15_UnboundSymbolIsError ==
    \A name \in ProgramNames :
        LET r == eval(frames, handles[1], SE_Symbol(name))
        IN  (status = "running"
             /\ Env_find_symbol(frames, handles[1], name).tag = "Err") =>
                /\ ~r.panicked
                /\ r.value = Err(VariableNotFound(name))
                /\ r.frames = frames
                /\ r.cur = handles[1]

\* ---------------------------------------------------------------- C16
\* C16: (set! x e) with x defined in no frame of the chain fails with
\* VariableNotFound and does not yield Nil (the evaluation ends in that
\* failure, returned or not), and binds x nowhere; with x defined it rewrites
\* the nearest binding of x and yields Nil.
SetFormEffect(name, value) ==
    LET r == eval(frames, handles[1], SetForm(name, value))
        t == Nearest(frames, handles[1], name)
    IN  IF t = None
        THEN /\ r.panicked \/ r.value = Err(VariableNotFound(name))
             /\ r.frames = frames
        ELSE /\ ~r.panicked
             /\ r.value = SE_Nil
             /\ r.frames = [frames EXCEPT ![t].bindings[name] = value]

C16_SetFormUnboundFails ==
    status = "running" =>
        \A name \in ProgramNames, value \in ProgramValues :
            SetFormEffect(name, value)


\* ---------------------------------------------------------------- C17
\* (begin body ...) from the current state yields value: in a frame pushed
\* on the current one and popped again, every frame there was left as it was
BeginYields(body, value) ==
    LET r == eval(frames, handles[1], BeginForm(body))
    IN  /\ ~r.panicked
        /\ r.value = value
        /\ r.cur = handles[1]
        /\ Len(r.frames) = Len(frames) + 1
        /\ r.frames[Len(frames) + 1].outer = handles[1]
        /\ \A f \in 1..Len(frames) : r.frames[f] = frames[f]

\* (begin (define n v) m) yields v for m = n and the enclosing binding of m
\* otherwise, and n is bound in the pushed frame only
BeginDefineScoped(n, v, m) ==
    (m = n \/ Nearest(frames, handles[1], m) # None) =>
        /\ BeginYields(<<DefineForm(n, v), SE_Symbol(m)>>,
                       IF m = n THEN v
                       ELSE Env_find_symbol(frames, handles[1], m).value)
        /\ LET r == eval(frames, handles[1],
                         BeginForm(<<DefineForm(n, v), SE_Symbol(m)>>))
           IN  DOMAIN r.frames[Len(frames) + 1].bindings = {n}

\* C17: begin evaluates its forms in order in a new frame, pops it and
\* yields the value of the last form, so a name defined in the body is not
\* bound in the enclosing frame afterwards; a begin with an empty body
\* yields Nil.
C17_BeginScoped ==
    status = "running" =>
        /\ \A n \in ProgramNames, m \in ProgramNames, v \in ProgramValues :
              BeginDefineScoped(n, v, m)
        /\ BeginYields(<<>>, SE_Nil)


\* ---------------------------------------------------------------- C18
\* (let ((a x) (b (+ y a))) (+ a b)) from the current state: b's init sees
\* the a of the same let, whatever a is bound to outside; the result is
\* x + (y + x); a and b are bound in a frame pushed on the current one and
\* popped, and every frame there was is left as it was
LetSequential(x, y) ==
    LET r == eval(frames, handles[1], LetForm(x, y))
    IN  /\ ~r.panicked
        /\ r.value = SE_Int(x.i + (y.i + x.i))
        /\ r.cur = handles[1]
        /\ Len(r.frames) = Len(frames) + 1
        /\ r.frames[Len(frames) + 1].outer = handles[1]
        /\ r.frames[Len(frames) + 1].bindings
              = Insert(Insert(EmptyBindings, "a", x), "b", SE_Int(y.i + x.i))
        /\ \A f \in 1..Len(frames) : r.frames[f] = frames[f]
        /\ \A n \in LetNames :
              Env_find_symbol(r.frames, r.cur, n)
                  = Env_find_symbol(frames, handles[1], n)

RECURSIVE IntFold(_, _, _)
IntFold(operation, acc, rest) ==
    IF rest = <<>> THEN acc
    ELSE IntFold(operation,
                 CASE operation = "Add" -> acc + rest[1].i
                   [] operation = "Substract" -> acc - rest[1].i
                   [] operation = "Multiply" -> acc * rest[1].i,
                 Tail(rest))

\* C19: + - * over Int arguments give the Int of the exact left fold, and a
\* Float as soon as one argument is a Float; / gives a Float for every Int
\* and Float operands, Int / Int included.
C19_ArithmeticKind ==
    (/\ session.count = 1
     /\ session.operation \in Arithmetics
     /\ Len(session.arguments) >= 1) =>
        IF session.operation = "Divide"
        THEN Len(session.arguments) >= 2 => session.result.tag = "Float"
        ELSE IF AllInt(session.arguments)
        THEN session.result = SE_Int(IntFold(session.operation,
                                             session.arguments[1].i,
                                             Tail(session.arguments)))
        ELSE session.result.tag = "Float"

\* (/ 4 2) gave Float 2.0
FourByTwoIsFloat ==
    /\ session.count = 1
    /\ session.operation = "Divide"
    /\ session.arguments = <<SE_Int(4), SE_Int(2)>>
    /\ session.result = SE_Float(2)


\* ------------------------------------------------------------------ C20
\* the floating-point power of two Int operands
PowAsFloat(base, exponent) ==
    Float_of(F64_powi(AsF64(SE_Int(base)), exponent))

\* C20: pow of two Int operands gives the Int base^exponent when the
\* exponent is not negative and the Float of the floating-point power when
\* it is negative; a negative exponent is never taken as an unsigned one
C20_PowIntExponent ==
    (/\ session.count = 1
     /\ session.operation = "Pow"
     /\ Len(session.arguments) >= 2
     /\ session.arguments[1].tag = "Int"
     /\ session.arguments[2].tag = "Int")
        => LET base == session.arguments[1].i
               exponent == session.arguments[2].i
           IN  session.result =
                   IF exponent >= 0 THEN SE_Int(IntPow(base, exponent))
                   ELSE PowAsFloat(base, exponent)

\* --------------------------------------- a session with if and cond
\* InterpreterError::ValueError and RuntimeError, the message left out
ValueError == [kind |-> "ValueError"]
RuntimeError == [kind |-> "RuntimeError"]

\* (+ name k)
Plus(name, k) == Form(<<SE_Operation("Add"), SE_Symbol(name), SE_Int(k)>>)

\* (begin (set! y (+ y 1)) value): yields value and counts in y how often
\* it was evaluated
Counted(value) == BeginForm(<<SetForm("y", Plus("y", 1)), value>>)

\* (begin (set! x (+ x k)) k): yields Int k and leaves in x the sum of the
\* k it was evaluated with
Marked(k) == BeginForm(<<SetForm("x", Plus("x", k)), SE_Int(k)>>)

\* the predicates of an if: #t  #f  (begin (set! y (+ y 1)) #t)
\* (begin (set! y (+ y 1)) #f)  1  #nil
IfPredicates ==
    {SE_Bool(TRUE), SE_Bool(FALSE), Counted(SE_Bool(TRUE)),
     Counted(SE_Bool(FALSE)), SE_Int(1), SE_Nil}
\* the branches: (set! x (+ x 1))  (define t 1) and
\* (set! x (+ x 2))  (define e 2)
ThenBranches == {SetForm("x", Plus("x", 1)), DefineForm("t", SE_Int(1))}
ElseBranches == {SetForm("x", Plus("x", 2)), DefineForm("e", SE_Int(2))}

\* the clauses of a cond, at most three: clause k is
\* ((begin (set! y (+ y 1)) b) (begin (set! x (+ x 2^(k-1))) 2^(k-1)))
MaxClauses == 3
Clause(b, k) == Form(<<Counted(b), Marked(IntPow(2, k - 1))>>)
CondForm(predicates) ==
    OperationForm("Cond", [k \in 1..Len(predicates) |-> Clause(predicates[k], k)])
PredicateLists ==
    UNION {[1..n -> {SE_Bool(TRUE), SE_Bool(FALSE)}] : n \in 0..MaxClauses}

\* the forms of a session with if and cond
MaxBranchForms == 4

\* one more form of a session of at most max forms
BoundedStep(max, form) ==
    /\ session.count < max
    /\ EvalProgram(form)

\* (define x 1)    (if predicate then else)    (cond clause ...)
\* (cond (1 2)), whose predicate is no Bool
BranchNext ==
    \/ \E name \in ProgramNames, value \in ProgramValues :
          BoundedStep(MaxBranchForms, DefineForm(name, value))
    \/ \E predicate \in IfPredicates, then \in ThenBranches, else \in ElseBranches :
          BoundedStep(MaxBranchForms, OperationForm("If", <<predicate, then, else>>))
    \/ \E predicates \in PredicateLists : BoundedStep(MaxBranchForms, CondForm(predicates))
    \/ BoundedStep(MaxBranchForms, OperationForm("Cond", <<Form(<<SE_Int(1), SE_Int(2)>>)>>))

BranchSpec == ProgramInit /\ [][BranchNext]_vars

\* ---------------------------------------------------------------- C21
\* the bindings of the global frame, and that x and y are numbers there
Globals == frames[handles[1]].bindings
CountersBound ==
    /\ handles[1] = Env_new.cur
    /\ {"x", "y"} \subseteq DOMAIN Globals
    /\ Globals["x"].tag = "Int" /\ Globals["y"].tag = "Int"

\* the global bindings once a branch was evaluated on them
BranchEffect(bindings, branch) ==
    IF branch.values[1] = SE_Operation("Define")
    THEN Insert(bindings, branch.values[2].name, branch.values[3])
    ELSE [bindings EXCEPT
             !["x"] = SE_Int(@.i + branch.values[3].values[3].i)]

\* the global bindings once a predicate was evaluated, once
PredicateEffect(bindings, predicate) ==
    IF predicate.tag = "Expression"
    THEN [bindings EXCEPT !["y"] = SE_Int(@.i + 1)]
    ELSE bindings

PredicateValue(predicate) ==
    IF predicate.tag = "Expression" THEN predicate.values[3] ELSE predicate

\* (if predicate then else) from the current state: the predicate once, then
\* the one branch its value chooses, the other branch not at all; a
\* ValueError for a predicate that is no Bool
IfEffect(predicate, then, else) ==
    LET r == eval(frames, handles[1], OperationForm("If", <<predicate, then, else>>))
        after == PredicateEffect(Globals, predicate)
        value == PredicateValue(predicate)
    IN  IF value.tag = "Bool"
        THEN /\ ~r.panicked
             /\ r.value = SE_Nil
             /\ r.cur = handles[1]
             /\ r.frames[r.cur].bindings =
                    BranchEffect(after, IF value.b THEN then ELSE else)
        ELSE /\ ~r.panicked
             /\ r.value = Err(ValueError)

\* C21: if evaluates its predicate once and then exactly one branch, the
\* second form for Bool true and the third for Bool false; the branch not
\* chosen is never evaluated, so its define or set! leaves the environment
\* as it was; a predicate that is no Bool is a ValueError.
C21_IfOneBranch ==
    (status = "running" /\ CountersBound) =>
        \A predicate \in IfPredicates, then \in ThenBranches,
           else \in ElseBranches : IfEffect(predicate, then, else)

\* ---------------------------------------------------------------- C22
\* the clauses whose predicate is Bool true
TrueClauses(predicates) ==
    {k \in 1..Len(predicates) : predicates[k] = SE_Bool(TRUE)}

\* (cond clause ...) from the current state, j being the first clause whose
\* predicate is true: y counts j predicates, x holds the mark of result j
\* and of no other, and the value is that of result j; a RuntimeError when
\* no predicate is true
CondEffect(predicates) ==
    LET r == eval(frames, handles[1], CondForm(predicates))
    IN  IF TrueClauses(predicates) # {}
        THEN LET j == Min(TrueClauses(predicates))
             IN  /\ ~r.panicked
                 /\ r.value = SE_Int(IntPow(2, j - 1))
                 /\ r.cur = handles[1]
                 /\ r.frames[r.cur].bindings =
                        [Globals EXCEPT !["y"] = SE_Int(@.i + j),
                                        !["x"] = SE_Int(@.i + IntPow(2, j - 1))]
        ELSE /\ ~r.panicked
             /\ r.value = Err(RuntimeError)

\* C22: cond evaluates the predicates of its clauses in order and yields the
\* result of the first clause whose predicate is Bool true; it evaluates no
\* predicate and no result of a later clause and no result of an earlier
\* one; when every predicate is Bool false the form returns a RuntimeError.
C22_CondFirstTrue ==
    (status = "running" /\ CountersBound) =>
        \A predicates \in PredicateLists : CondEffect(predicates)

\* ------------------------------------- a session with applications
\* (lambda (parameter ...) body)
LambdaForm(parameters, body) ==
    Form(<<SE_Operation("Lambda"),
           Form([k \in 1..Len(parameters) |-> SE_Symbol(parameters[k])]), body>>)

\* (define add-x (lambda (a) (+ a x))): x is free in the body
AdderForm ==
    DefineForm("add-x",
               LambdaForm(<<"a">>,
                          Form(<<SE_Operation("Add"), SE_Symbol("a"),
                                 SE_Symbol("x")>>)))

\* (define add-m ((lambda (x) (lambda (a) (+ a x))) m)): the closure is made
\* in a frame that binds x to m
MadeAdderForm(m) ==
    DefineForm("add-m",
               Form(<<LambdaForm(<<"x">>,
                                 LambdaForm(<<"a">>,
                                            Form(<<SE_Operation("Add"),
                                                   SE_Symbol("a"),
                                                   SE_Symbol("x")>>))),
                      m>>))

\* (define pick (lambda (a b) a))
PickForm == DefineForm("pick", LambdaForm(<<"a", "b">>, SE_Symbol("a")))

\* (begin (define x v) (name x)): the caller's frame binds x
ScopedCallForm(name, v) ==
    BeginForm(<<DefineForm("x", v), Form(<<SE_Symbol(name), SE_Symbol("x")>>)>>)

Adders == {"add-x", "add-m"}
CallerValues == {SE_Int(10), SE_Int(20)}
Made == {SE_Int(5), SE_Int(6)}

\* the arguments pick is applied to: none, one, two, and a third one with a
\* side effect, (set! y 7)
SurplusArgument == SetForm("y", SE_Int(7))
PickArguments ==
    {<<>>, <<SE_Int(3)>>, <<SE_Int(3), SE_Int(4)>>,
     <<SE_Int(3), SE_Int(4), SurplusArgument>>,
     <<SE_Int(3), SE_Int(4), SE_Symbol("y"), SurplusArgument>>}

\* the forms of a session with applications
MaxApplyForms == 4

ApplyNext ==
    \/ \E name \in ProgramNames, value \in ProgramValues :
          BoundedStep(MaxApplyForms, DefineForm(name, value))
    \/ BoundedStep(MaxApplyForms, AdderForm)
    \/ \E m \in Made : BoundedStep(MaxApplyForms, MadeAdderForm(m))
    \/ BoundedStep(MaxApplyForms, PickForm)
    \/ \E name \in Adders, v \in CallerValues : BoundedStep(MaxApplyForms, ScopedCallForm(name, v))
    \/ \E arguments \in PickArguments :
          BoundedStep(MaxApplyForms, Form(<<SE_Symbol("pick")>> \o arguments))

ApplySpec == ProgramInit /\ [][ApplyNext]_vars

\* ---------------------------------------------------------------- C23
\* the adders the global frame binds
BoundAdders ==
    {c \in Adders \cap DOMAIN Globals : Globals[c].tag = "Lambda"}

\* (begin (define x v) (c x)) from the current state: the argument x is the
\* caller's x, v; the parameter is bound to it in a new frame on the frame
\* the closure captured; the x of the body is the one found from the
\* captured frame, and without one there the call fails although the caller
\* binds x
ScopedCallEffect(c, v) ==
    LET lambda == Globals[c]
        r == eval(frames, handles[1], ScopedCallForm(c, v))
        free == Env_find_symbol(frames, lambda.env, "x")
        new == (Len(frames) + 1)..Len(r.frames)
    IN  /\ \E f \in new : /\ r.frames[f].outer = handles[1]
                          /\ r.frames[f].bindings = Insert(EmptyBindings, "x", v)
        /\ \E f \in new : /\ r.frames[f].outer = lambda.env
                          /\ r.frames[f].bindings = Insert(EmptyBindings, "a", v)
        /\ IF free.tag = "Ok" /\ free.value.tag = "Int"
           THEN /\ ~r.panicked
                /\ r.value = SE_Int(v.i + free.value.i)
                /\ r.cur = handles[1]
           ELSE r.panicked

\* C23: the argument forms of an application are evaluated in the caller's
\* environment, the parameters are bound in a new frame pushed on the
\* closure's captured environment and the body is evaluated there: a free
\* variable of the body is the binding visible where the lambda was made,
\* never one that only a frame of the caller has.
C23_LexicalScope ==
    /\ status = "running" =>
          \A c \in BoundAdders, v \in CallerValues : ScopedCallEffect(c, v)
    /\ \A c \in Adders, v \in CallerValues :
          (session.count > 0 /\ session.form = ScopedCallForm(c, v)
           /\ status = "running") =>
              /\ session.result.tag = "Int"
              /\ session.result.i - v.i \in
                     {w.i : w \in ProgramValues \cup Made}

\* add-x was applied in a frame binding x to 10 while the global x is 1,
\* and gave 11
CallerBindingNotSeen ==
    /\ status = "running" /\ session.count > 0
    /\ session.form = ScopedCallForm("add-x", SE_Int(10))
    /\ Globals["x"] = SE_Int(1)
    /\ session.result = SE_Int(11)

\* ---------------------------------------------------------------- C24
\* the first n elements of a sequence, all of it when it is shorter
Take(s, n) == [k \in 1..(IF Len(s) < n THEN Len(s) ELSE n) |-> s[k]]

\* the global bindings once every argument form was evaluated
ArgumentsEffect(bindings, arguments) ==
    IF SurplusArgument \in Range(arguments)
    THEN [bindings EXCEPT !["y"] = SurplusArgument.values[3]]
    ELSE bindings

\* (pick argument ...) from the current state: every argument form is
\* evaluated, the call frame binds the parameters that have an argument, in
\* order, and no other; the call returns its first argument
PickEffect(arguments) ==
    LET lambda == Globals["pick"]
        r == eval(frames, handles[1], Form(<<SE_Symbol("pick")>> \o arguments))
        bound == Take(lambda.parameters, Len(arguments))
        new == (Len(frames) + 1)..Len(r.frames)
    IN  /\ \E f \in new :
              /\ r.frames[f].outer = lambda.env
              /\ r.frames[f].bindings =
                     [p \in Range(bound) |->
                         arguments[CHOOSE k \in DOMAIN bound : bound[k] = p]]
        /\ r.frames[handles[1]].bindings = ArgumentsEffect(Globals, arguments)
        /\ arguments # <<>> =>
              /\ ~r.panicked
              /\ r.value = arguments[1]
              /\ r.cur = handles[1]

\* pick is bound to its closure and y to a number
PickBound ==
    /\ handles[1] = Env_new.cur
    /\ {"pick", "y"} \subseteq DOMAIN Globals
    /\ Globals["pick"].tag = "Lambda"
    /\ Globals["y"].tag = "Int"

\* C24: an application with more or fewer arguments than parameters raises
\* no error: every argument form is evaluated in the caller's environment,
\* those beyond the parameters too, so their side effects occur; the values
\* are bound to the parameters by position, the values beyond are ignored,
\* and a parameter without an argument is left unbound in the call frame.
C24_ArityMismatchSilent ==
    (status = "running" /\ PickBound) =>
        \A arguments \in PickArguments : PickEffect(arguments)

\* ------------------------------- a session with pairs, lists and order
\* (begin (set! x k) k): yields Int k and leaves k in x
Stamp(k) == BeginForm(<<SetForm("x", SE_Int(k)), SE_Int(k)>>)

\* the calls whose arguments are stamps: (+ ..)  (cons ..)  (list ..) and
\* (pick ..), an application
MaxStamps == 3
OrderedForm(head, stamps) ==
    Form(<<head>> \o [k \in 1..Len(stamps) |-> Stamp(stamps[k])])
\* cons and pick take two arguments
OrderedCalls ==
    {call \in {SE_Operation("Add"), SE_Operation("Cons"), SE_Operation("List"),
               SE_Symbol("pick")}
                  \X UNION {[1..n -> {1, 2}] : n \in 2..MaxStamps} :
        call[1] \in {SE_Operation("Cons"), SE_Symbol("pick")}
            => Len(call[2]) = 2}

\* the values pairs and lists are made of: literals, and (cons 1 #nil)
PairValues ==
    {SE_Int(1), SE_Nil, SE_Bool(TRUE), SE_Str("s"),
     Form(<<SE_Operation("Cons"), SE_Int(1), SE_Nil>>)}
\* (car (cons a b))    (cdr (cons a b))
OfCons(operation, a, b) ==
    OperationForm(operation, <<OperationForm("Cons", <<a, b>>)>>)

\* lists of at most MaxElements elements
MaxElements == 2
ElementLists == UNION {[1..n -> PairValues] : n \in 0..MaxElements}

\* (cdr (cdr .. form)), n times
RECURSIVE CdrTimes(_, _)
CdrTimes(n, form) ==
    IF n = 0 THEN form ELSE OperationForm("Cdr", <<CdrTimes(n - 1, form)>>)

\* the forms of a session with pairs
MaxPairForms == 3

PairNext ==
    \/ \E value \in ProgramValues : BoundedStep(MaxPairForms, DefineForm("x", value))
    \/ BoundedStep(MaxPairForms, PickForm)
    \/ \E call \in OrderedCalls : BoundedStep(MaxPairForms, OrderedForm(call[1], call[2]))
    \/ \E a \in PairValues, b \in PairValues : BoundedStep(MaxPairForms, OfCons("Car", a, b))
    \/ \E a \in PairValues, b \in PairValues : BoundedStep(MaxPairForms, OfCons("Cdr", a, b))
    \/ \E elements \in ElementLists : BoundedStep(MaxPairForms, OperationForm("List", elements))
    \/ \E elements \in ElementLists :
          BoundedStep(MaxPairForms, OperationForm("Car", <<OperationForm("List", elements)>>))
    \/ \E elements \in ElementLists :
          BoundedStep(MaxPairForms, CdrTimes(Len(elements), OperationForm("List", elements)))
    \/ \E a \in PairValues : BoundedStep(MaxPairForms, OperationForm("Car", <<a>>))
    \/ \E a \in PairValues : BoundedStep(MaxPairForms, OperationForm("Cdr", <<a>>))

PairSpec == ProgramInit /\ [][PairNext]_vars

\* ---------------------------------------------------------------- C25
\* x is bound in the global frame, and so is pick when it is the head
StampsApply(head) ==
    /\ handles[1] = Env_new.cur
    /\ "x" \in DOMAIN Globals
    /\ head.tag = "Symbol" =>
          (head.name \in DOMAIN Globals /\ Globals[head.name].tag = "Lambda")

\* (head (begin (set! x k1) k1) (begin (set! x k2) k2) ..) from the current
\* state: the call returns and x is left at the stamp of the rightmost
\* argument, the one evaluated last
OrderedEffect(head, stamps) ==
    LET r == eval(frames, handles[1], OrderedForm(head, stamps))
    IN  /\ ~r.panicked
        /\ r.cur = handles[1]
        /\ r.frames[r.cur].bindings["x"] = SE_Int(stamps[Len(stamps)])

\* C25: the arguments of every built-in operation and of every application
\* are evaluated left to right: of two argument forms of one call that set!
\* the same variable the left one takes effect before the right one, for
\* list as for + and cons.
C25_LeftToRight ==
    status = "running" =>
        \A call \in OrderedCalls :
            StampsApply(call[1]) => OrderedEffect(call[1], call[2])

\* ---------------------------------------------------------------- C28
\* what a form of PairValues evaluates to
ValueOf(form) ==
    IF form.tag = "Expression"
    THEN SE_Cons(form.values[2], form.values[3])
    ELSE form

\* the Cons chain of the values from position k on, ended by Nil
RECURSIVE Chain(_, _)
Chain(elements, k) ==
    IF k > Len(elements) THEN SE_Nil
    ELSE SE_Cons(ValueOf(elements[k]), Chain(elements, k + 1))

\* form evaluated from the current state gives value and changes nothing
Gives(form, value) ==
    LET r == eval(frames, handles[1], form)
    IN  /\ ~r.panicked
        /\ r.value = value
        /\ r.frames = frames
        /\ r.cur = handles[1]

\* form evaluated from the current state returns a RuntimeError
GivesRuntimeError(form) ==
    LET r == eval(frames, handles[1], form)
    IN  /\ ~r.panicked
        /\ r.value = Err(RuntimeError)

\* C28: (car (cons a b)) is a and (cdr (cons a b)) is b for all values a and
\* b; (list x1 .. xn) is the Cons chain of x1 .. xn ended by Nil, in the
\* order of the arguments: its car is x1 and n times cdr of it is Nil; car
\* and cdr of a value that is no Cons are a RuntimeError.
C28_PairRoundTrip ==
    status = "running" =>
        /\ \A a \in PairValues, b \in PairValues :
              /\ Gives(OfCons("Car", a, b), ValueOf(a))
              /\ Gives(OfCons("Cdr", a, b), ValueOf(b))
        /\ \A elements \in ElementLists :
              /\ Gives(OperationForm("List", elements), Chain(elements, 1))
              /\ elements # <<>> =>
                    Gives(OperationForm("Car", <<OperationForm("List", elements)>>),
                          ValueOf(elements[1]))
              /\ Gives(CdrTimes(Len(elements), OperationForm("List", elements)), SE_Nil)
        /\ \A a \in PairValues :
              ValueOf(a).tag # "Cons" =>
                  /\ GivesRuntimeError(OperationForm("Car", <<a>>))
                  /\ GivesRuntimeError(OperationForm("Cdr", <<a>>))

\* --------------------------- a session with module and reserved words

\* the bodies of a module, of the forms (define x 1)  (define x 2)
\* (define y 1)  9
MaxBody == 2
Bodies ==
    UNION {[1..n -> {DefineForm("x", SE_Int(1)), DefineForm("x", SE_Int(2)),
                     DefineForm("y", SE_Int(1)), SE_Int(9)}] : n \in 0..MaxBody}

\* the reserved words a define is given as its value form: + and list
ReservedWords == {SE_Operation("Add"), SE_Operation("List")}

\* the forms of a session with module
MaxModuleForms == 3

\* (module form ...)    (define x +)    (module (define x +))    (x 1 2)
ModuleNext ==
    \/ \E body \in Bodies : BoundedStep(MaxModuleForms, OperationForm("Module", body))
    \/ \E name \in ProgramNames, word \in ReservedWords :
          BoundedStep(MaxModuleForms, DefineForm(name, word))
    \/ \E name \in ProgramNames, word \in ReservedWords :
          BoundedStep(MaxModuleForms, OperationForm("Module", <<DefineForm(name, word)>>))
    \/ \E name \in ProgramNames :
          BoundedStep(MaxModuleForms, Form(<<SE_Symbol(name), SE_Int(1), SE_Int(2)>>))

ModuleSpec == ProgramInit /\ [][ModuleNext]_vars

\* ---------------------------------------------------------------- C26
\* C26: in every reachable state no frame of any environment binds a name to
\* an Operation value: no sequence of evaluated forms, a define whose value
\* form is a reserved word such as + included, stores an Operation tag in
\* the environment.
C26_NoOperationStored ==
    \A f \in 1..Len(frames) :
        \A n \in DOMAIN frames[f].bindings :
            frames[f].bindings[n].tag # "Operation"

\* ---------------------------------------------------------------- C27
\* the bindings once the forms of a body from position k on were evaluated
\* in order
RECURSIVE BodyEffect(_, _, _)
BodyEffect(bindings, body, k) ==
    IF k > Len(body) THEN bindings
    ELSE BodyEffect(IF body[k].tag = "Expression"
                    THEN Insert(bindings, body[k].values[2].name,
                                body[k].values[3])
                    ELSE bindings,
                    body, k + 1)

\* (module form ...) from the current state: Nil, no frame more than before,
\* the handle where it was, and in the current frame what the forms define,
\* the later define of a name over the earlier
ModuleEffect(body) ==
    LET r == eval(frames, handles[1], OperationForm("Module", body))
    IN  /\ ~r.panicked
        /\ r.value = SE_Nil
        /\ r.cur = handles[1]
        /\ Len(r.frames) = Len(frames)
        /\ r.frames =
               [frames EXCEPT ![handles[1]].bindings = BodyEffect(@, body, 1)]

\* C27: module evaluates every one of its forms in order in the current
\* frame, pushes no frame and yields Nil: a name defined directly inside
\* module is bound in the caller's current frame after the form returns,
\* and the current frame is the same before and after.
C27_ModuleNoFrame ==
    /\ status = "running" => \A body \in Bodies : ModuleEffect(body)
    /\ \A body \in Bodies :
          (session.count > 0 /\ session.form = OperationForm("Module", body)) =>
              /\ status = "running"
              /\ session.result = SE_Nil
              /\ handles[1] = Env_new.cur
              /\ \A k \in DOMAIN body :
                    body[k].tag = "Expression" =>
                        body[k].values[2].name \in DOMAIN Globals
              /\ BodyEffect(Globals, body, 1) = Globals

\* (module (define x 1) (define x 2)) was evaluated: x is 2 in the global
\* frame, which is still the current one and the only one
ModuleDefinedInCurrentFrame ==
    /\ status = "running" /\ session.count > 0
    /\ session.form = OperationForm("Module", <<DefineForm("x", SE_Int(1)),
                                   DefineForm("x", SE_Int(2))>>)
    /\ session.result = SE_Nil
    /\ handles[1] = Env_new.cur
    /\ Len(frames) = 1
    /\ Globals["x"] = SE_Int(2)

\* ---------------------------------------------------------------- C29
\* every closure stored in a frame of before is stored there in after, with
\* the handle it had
ClosuresKept(before, after) ==
    \A f \in 1..Len(before) :
        \A n \in DOMAIN before[f].bindings :
            before[f].bindings[n].tag = "Lambda" =>
                /\ n \in DOMAIN after[f].bindings
                /\ after[f].bindings[n] = before[f].bindings[n]

\* the frames made between before and after that bind the parameters of
\* lambda: the frames of its calls
CallFrames(before, after, lambda) ==
    {f \in (Len(before) + 1)..Len(after) :
        DOMAIN after[f].bindings = Range(lambda.parameters)}

\* one application from before to after: there are call frames, each one is
\* linked to the frame the closure captured, and that frame is as it was
CalledOnCaptured(before, after, lambda) ==
    /\ CallFrames(before, after, lambda) # {}
    /\ \A f \in CallFrames(before, after, lambda) :
          after[f].outer = lambda.env
    /\ after[lambda.env].outer = before[lambda.env].outer
    /\ after[lambda.env].bindings = EmptyBindings

\* what closure c is applied to: sum to the numbers it adds up, the others
\* to amounts
ArgumentsOf(c) == IF c = "sum" THEN SumArgs ELSE Amounts

\* closure c applied to a from the current state, and applied once more
\* after that
AppliedTwice(c, a) ==
    LET lambda == Globals[c]
        once == eval(frames, handles[1], CallForm(c, a))
        twice == eval(once.frames, once.cur, CallForm(c, a))
    IN  /\ ~once.panicked /\ ~twice.panicked
        /\ ClosuresKept(frames, once.frames)
        /\ ClosuresKept(frames, twice.frames)
        /\ CalledOnCaptured(frames, once.frames, lambda)
        /\ CalledOnCaptured(once.frames, twice.frames, lambda)

\* C29: applying a closure never changes the closure stored in the
\* environment: the call frame is pushed on a copy of its handle, so after
\* applications, successive, nested or recursive, the stored handle still
\* points at the frame made when the lambda form was evaluated, and the
\* outer link of every call frame is that frame, never another call frame.
C29_StoredClosureKept ==
    /\ status = "running" =>
          \A c \in Closures : \A a \in ArgumentsOf(c) : AppliedTwice(c, a)
    /\ \A c \in Closures :
          /\ frames[Globals[c].env].live
          /\ frames[Globals[c].env].bindings = EmptyBindings

\* (sum 3) ran four applications of sum inside one another and gave 6; the
\* closure stored under sum still has the empty frame it captured
SumThreeKeptClosure ==
    /\ status = "running" /\ session.applied
    /\ session.name = "sum" /\ session.argument = SE_Int(3)
    /\ session.result = SE_Int(6)
    /\ "sum" \in Closures
    /\ frames[Globals["sum"].env].live
    /\ frames[Globals["sum"].env].bindings = EmptyBindings

====
